---- MODULE Spec2Model ----
(***************************************************************************)
(* A state-machine model of the LBL boot engine: the filesystem manager,   *)
(* the configuration loader and parser, the ELF64 kernel loader, the boot  *)
(* executor, the x86_64 architecture adapter and the GUI main loop.        *)
(* Each subsystem has its own variables and its own specification; a       *)
(* specification leaves the variables of the other subsystems unchanged.   *)
(***************************************************************************)
EXTENDS Integers, Sequences, FiniteSets, TLC

VARIABLES
    \* core/src/fs/manager.rs: FilesystemManager
    drivers,                  \* Vec<Box<dyn FileSystemDriver>>: the drivers' names
    mounted_volumes,          \* BTreeMap<String, MountedVolumeInfo>
    next_volume_numeric_id,   \* u32
    mount_result,             \* what the last mount_volume_from_device returned
    returned_ids,             \* the ids returned by the successful mounts, in order
    mount_call,               \* the last mount_volume_from_device call: its device, what the
                              \* drivers did, the driver calls it made, the table before it
    fs_call,                  \* the last read_file, list_directory, metadata or exists call
    detect_call,              \* the last Fat32Driver::detect call: its device and its result
    \* core/src/config.rs: load_configuration
    cfg_result,               \* what load_configuration returned
    cfg_reads,                \* the (volume, path) pairs it read, in order
    \* core/src/config/parser.rs: parse_config_json
    parse_input,              \* the JSON text handed to parse_config_json
    parse_result,             \* what it returned
    \* core/src/loader/kernel_formats.rs: load_kernel
    kernel_data,              \* the image handed to load_kernel
    memory,                   \* physical memory: address -> byte
    load_result,              \* what load_kernel returned
    \* core/src/loader.rs: execute_boot, and the machine it runs on
    boot_entry,               \* the BootEntry being executed
    boot_pc,                  \* where execute_boot stands
    boot_log,                 \* what the executor has done so far, in order
    boot_env,                 \* [volume, initrd, params]: volume_id_to_use, initrd_info, boot_params
    tpm_available,            \* SecurityManager::tpm_available
    next_alloc_addr,          \* static NEXT_ALLOC_ADDR of allocate_contiguous_memory
    firmware,                 \* [kind, map_key, calls]: the firmware, its memory-map key, the calls it received
    \* gui/src/ui.rs: run_loop
    gui_config,               \* context.config
    gui_pc,                   \* where run_loop stands
    ui_state,                 \* UiState
    gui_result,               \* what run_loop returned
    fake_time,                \* static FAKE_TIME of get_current_time_ms
    elapsed_ms,               \* the time that passed since the loop started
    \* core/src/hal.rs, core/src/hal/device_manager.rs, core/src/hal/async_probe.rs
    hal_call,                 \* the last hal::initialize call: its pointer and its result
    device_manager,           \* HalServices::device_manager: [devices, device_ids_by_type,
                              \* next_device_id]
    published,                \* the add_device calls so far: the device as stored, in order
    probe_handle,             \* ProbeHandle: [tasks, total_tasks, completed_tasks]
    \* core/src/loader/kernel_formats.rs: load_initrd
    staged,                   \* the successive load_initrd calls: [info, data], in order
    \* core/src/logger.rs and the log facade it registers with
    LOGGER_INSTANCE,          \* static LOGGER_INSTANCE: [level_filter]
    log_facade,               \* the log crate's statics: [logger_set, max_level]
    log_call,                 \* the last logger call or log record, and what came of it
    \* gui/src/input.rs
    INPUT_EVENT_QUEUE,        \* static mut INPUT_EVENT_QUEUE: Option of [items, capacity]
    input_call,               \* the last input call: the queue before it and its result
    accepted,                 \* the events the queue took since it was created, in order
    delivered                 \* the events polled since the queue was created, in order

fsVars == <<drivers, mounted_volumes, next_volume_numeric_id, mount_result, returned_ids,
            mount_call, fs_call, detect_call>>
cfgVars == <<cfg_result, cfg_reads>>
parseVars == <<parse_input, parse_result>>
elfVars == <<kernel_data, memory, load_result>>
bootVars == <<boot_entry, boot_pc, boot_log, boot_env, tpm_available, next_alloc_addr,
              firmware>>
guiVars == <<gui_config, gui_pc, ui_state, gui_result, fake_time, elapsed_ms>>
halVars == <<hal_call, device_manager, published, probe_handle>>
stageVars == <<staged>>
logVars == <<LOGGER_INSTANCE, log_facade, log_call>>
inputVars == <<INPUT_EVENT_QUEUE, input_call, accepted, delivered>>
vars == <<fsVars, cfgVars, parseVars, elfVars, bootVars, guiVars, halVars, stageVars,
          logVars, inputVars>>

----------------------------------------------------------------------------
(* Bounds of the model. *)

MaxDrivers == 2          \* register_driver calls
MaxVolumeNumericId == 3  \* generate_volume_id calls (the u32 counter stays below 2^32)
MaxCfgVolumes == 2       \* volumes mounted before load_configuration runs
MaxOrderNumericId == 10  \* generate_volume_id calls where the order of the ids is examined
MaxEntries == 3          \* entries of a configuration document
MaxPhdrs == 2            \* program headers of an ELF image
MaxMapKey == 2           \* changes of the firmware's memory-map key
MaxPolled == 2           \* key presses pending when the loop polls for input
MaxStagings == 3         \* load_initrd calls on one machine
MaxQueued == 2           \* the capacity asked of the input queue (32, scaled)
MaxPushes == 4           \* events one input queue accepts
MaxInitrdLen == 17       \* bytes of an initrd file
MaxDevices == 3          \* add_device calls
MaxDeviceId == 2         \* the largest id a probe assigns to a device itself
TimeWidth == 7           \* bits of the millisecond clock (u64 in the source)

----------------------------------------------------------------------------
(* Strings are sequences of one-character strings. *)

None == <<>>
Some(x) == <<x>>

\* The byte value of a character (ASCII), for the characters the model uses.
CharCode(c) ==
    CASE c = "-" -> 45 [] c = "." -> 46 [] c = "/" -> 47
      [] c = "0" -> 48 [] c = "1" -> 49 [] c = "2" -> 50 [] c = "3" -> 51
      [] c = "4" -> 52 [] c = "5" -> 53 [] c = "6" -> 54 [] c = "7" -> 55
      [] c = "8" -> 56 [] c = "9" -> 57
      [] c = "A" -> 65 [] c = "E" -> 69 [] c = "F" -> 70 [] c = "T" -> 84
      [] c = "X" -> 88 [] c = "_" -> 95
      [] c = "a" -> 97 [] c = "b" -> 98 [] c = "d" -> 100 [] c = "e" -> 101 [] c = "f" -> 102
      [] c = "l" -> 108 [] c = "o" -> 111 [] c = "s" -> 115 [] c = "t" -> 116
      [] c = "v" -> 118 [] c = "x" -> 120

\* str::cmp: lexicographic order on the bytes, a proper prefix first.
RECURSIVE StrLess(_, _)
StrLess(a, b) ==
    IF b = <<>> THEN FALSE
    ELSE IF a = <<>> THEN TRUE
    ELSE IF CharCode(Head(a)) # CharCode(Head(b))
         THEN CharCode(Head(a)) < CharCode(Head(b))
         ELSE StrLess(Tail(a), Tail(b))

\* str::replace("/", "_")
ReplaceSlash(s) == [i \in DOMAIN s |-> IF s[i] = "/" THEN "_" ELSE s[i]]

\* str::to_lowercase
LowerChar(c) ==
    CASE c = "A" -> "a" [] c = "E" -> "e" [] c = "F" -> "f"
      [] c = "T" -> "t" [] c = "X" -> "x" [] OTHER -> c
ToLowercase(s) == [i \in DOMAIN s |-> LowerChar(s[i])]

\* The decimal digits of a natural number, as format!("{}", n) prints them.
DigitChar(d) ==
    CASE d = 0 -> "0" [] d = 1 -> "1" [] d = 2 -> "2" [] d = 3 -> "3" [] d = 4 -> "4"
      [] d = 5 -> "5" [] d = 6 -> "6" [] d = 7 -> "7" [] d = 8 -> "8" [] d = 9 -> "9"
RECURSIVE Decimal(_)
Decimal(n) == IF n < 10 THEN <<DigitChar(n)>> ELSE Decimal(n \div 10) \o <<DigitChar(n % 10)>>

----------------------------------------------------------------------------
(* core/src/fs/manager.rs *)

\* Two device names that replace("/", "_") maps to one string, and two driver names
\* that to_lowercase maps to one string: only the counter tells their ids apart.
DeviceNames == { <<"d", "/", "1">>, <<"d", "_", "1">> }
DriverNames == { <<"F", "A", "T">>, <<"f", "a", "t">> }

\* What one driver does with the device in one mount call: detect() returns false,
\* detect() returns true and mount() fails, or detect() returns true and mount()
\* returns an instance.
DriverOutcomes == {"nodetect", "mountfail", "mountok"}

\* format!("vol-{}-{}-{}", id_num, device_name.replace("/", "_"), fs_type_name.to_lowercase())
FormatVolumeId(id_num, device_name, fs_type_name) ==
    <<"v", "o", "l", "-">> \o Decimal(id_num) \o <<"-">> \o ReplaceSlash(device_name)
        \o <<"-">> \o ToLowercase(fs_type_name)

\* A plausible slip: the counter is read but not advanced.
generate_volume_id_stuck(ctr, device_name, fs_type_name) ==
    [id |-> FormatVolumeId(ctr, device_name, fs_type_name), next |-> ctr]

\* generate_volume_id: the id, and the counter after the call.
generate_volume_id(ctr, device_name, fs_type_name) ==
    [id |-> FormatVolumeId(ctr, device_name, fs_type_name), next |-> ctr + 1]

\* A plausible slip: a detecting driver's failed mount ends the call.
on_mount_error_return == "return"

\* What the Err arm of driver.mount does (line 123): the loop goes on.
on_mount_error == "continue"

\* A plausible slip: the first detecting driver is taken as the mounting one
\* whatever its mount returned.
RECURSIVE MountLoop_first_detecting(_, _, _, _)
MountLoop_first_detecting(i, ctr, device_name, outcomes) ==
    IF i > Len(drivers) THEN [next |-> ctr, driver |-> 0, id |-> <<>>, calls |-> <<>>]
    ELSE IF outcomes[i] = "nodetect"
    THEN LET rest == MountLoop_first_detecting(i + 1, ctr, device_name, outcomes)
         IN  [rest EXCEPT !.calls = <<[driver |-> i, call |-> "detect"]>> \o @]
    ELSE LET g == generate_volume_id(ctr, device_name, drivers[i])
         IN  [next |-> g.next, driver |-> i, id |-> g.id,
              calls |-> <<[driver |-> i, call |-> "detect"],
                          [driver |-> i, call |-> "mount"]>>]

\* The loop of mount_volume_from_device from driver i on, the counter being ctr:
\* the counter after the call, the driver that mounted (0 when none did) with the
\* id generated for it, and the detect and mount calls made, in order.
RECURSIVE MountLoop(_, _, _, _)
MountLoop(i, ctr, device_name, outcomes) ==
    IF i > Len(drivers) THEN [next |-> ctr, driver |-> 0, id |-> <<>>, calls |-> <<>>]
    ELSE IF outcomes[i] = "nodetect"
    THEN LET rest == MountLoop(i + 1, ctr, device_name, outcomes)
         IN  [rest EXCEPT !.calls = <<[driver |-> i, call |-> "detect"]>> \o @]
    ELSE LET g == generate_volume_id(ctr, device_name, drivers[i])
             made == <<[driver |-> i, call |-> "detect"], [driver |-> i, call |-> "mount"]>>
         IN  IF outcomes[i] = "mountok"
             THEN [next |-> g.next, driver |-> i, id |-> g.id, calls |-> made]
             ELSE IF on_mount_error = "continue"
             THEN LET rest == MountLoop(i + 1, g.next, device_name, outcomes)
                  IN  [rest EXCEPT !.calls = made \o @]
             ELSE [next |-> g.next, driver |-> 0, id |-> <<>>, calls |-> made]

\* How many ids the call generates: one per detecting driver it reaches.
RECURSIVE IdsGenerated(_, _)
IdsGenerated(i, outcomes) ==
    IF i > Len(outcomes) THEN 0
    ELSE IF outcomes[i] = "nodetect" THEN IdsGenerated(i + 1, outcomes)
    ELSE IF outcomes[i] = "mountok" THEN 1
    ELSE 1 + IdsGenerated(i + 1, outcomes)

FilesystemManager_new ==
    /\ drivers = <<>>
    /\ mounted_volumes = <<>>
    /\ next_volume_numeric_id = 1
    /\ mount_result = [kind |-> "none"]
    /\ returned_ids = <<>>
    /\ mount_call = [kind |-> "none"]
    /\ fs_call = [kind |-> "none"]
    /\ detect_call = [kind |-> "none"]

register_driver(name) ==
    /\ Len(drivers) < MaxDrivers
    /\ drivers' = Append(drivers, name)
    /\ UNCHANGED <<mounted_volumes, next_volume_numeric_id, mount_result, returned_ids,
                   mount_call, fs_call, detect_call>>

\* mount_volume_from_device(device); the drivers behave as `outcomes` says and the
\* mounting driver returns `instance`.
mount_volume_from_device(device_name, outcomes, instance) ==
    /\ LET r == MountLoop(1, next_volume_numeric_id, device_name, outcomes)
       IN  /\ next_volume_numeric_id' = r.next
           /\ mount_call' = [kind |-> "done", device |-> device_name,
                             outcomes |-> outcomes, calls |-> r.calls,
                             before |-> mounted_volumes]
           /\ IF r.driver # 0
              THEN LET lbl_volume_info ==
                           [id |-> r.id, fs_type |-> drivers[r.driver],
                            device_path |-> device_name,
                            is_read_only |-> instance.read_only]
                   IN  /\ mounted_volumes' =
                              [k \in DOMAIN mounted_volumes \cup {r.id} |->
                                  IF k = r.id
                                  THEN [instance |-> instance,
                                        lbl_volume_info |-> lbl_volume_info]
                                  ELSE mounted_volumes[k]]
                       /\ mount_result' = [kind |-> "Ok", volume |-> lbl_volume_info]
                       /\ returned_ids' = Append(returned_ids, r.id)
              ELSE /\ mount_result' = [kind |-> "Err", err |-> "Unsupported"]
                   /\ UNCHANGED <<mounted_volumes, returned_ids>>
    /\ UNCHANGED <<drivers, fs_call, detect_call>>

\* BTreeMap::values(): the entries in ascending order of their keys.
RECURSIVE SortedKeys(_)
SortedKeys(keys) ==
    IF keys = {} THEN <<>>
    ELSE LET least == CHOOSE k \in keys : \A o \in keys \ {k} : StrLess(k, o)
         IN  <<least>> \o SortedKeys(keys \ {least})

list_mounted_volumes ==
    LET ks == SortedKeys(DOMAIN mounted_volumes)
    IN  [i \in DOMAIN ks |-> mounted_volumes[ks[i]].lbl_volume_info]

\* A plausible slip: an unknown volume id is reported as a missing file.
get_instance_not_found(volume_id) ==
    IF volume_id \notin DOMAIN mounted_volumes
    THEN [kind |-> "Err", err |-> "NotFound"]
    ELSE [kind |-> "Ok", instance |-> mounted_volumes[volume_id].instance]

\* get_instance: mounted_volumes.get(volume_id), VolumeNotMounted(volume_id) when
\* the map has no such key.
get_instance(volume_id) ==
    IF volume_id \notin DOMAIN mounted_volumes
    THEN [kind |-> "Err", err |-> "VolumeNotMounted", id |-> volume_id]
    ELSE [kind |-> "Ok", instance |-> mounted_volumes[volume_id].instance]

\* self.get_instance(volume_id)?.read_file(path), and the same for list_directory,
\* metadata and exists: the error of get_instance, else what the instance answers.
\* An instance is a record of its answers, path by path.
read_file(volume_id, path) ==
    LET g == get_instance(volume_id)
    IN  IF g.kind = "Err" THEN g ELSE g.instance.files[path]

list_directory(volume_id, path) ==
    LET g == get_instance(volume_id)
    IN  IF g.kind = "Err" THEN g ELSE g.instance.listing[path]

metadata(volume_id, path) ==
    LET g == get_instance(volume_id)
    IN  IF g.kind = "Err" THEN g ELSE g.instance.meta[path]

exists(volume_id, path) ==
    LET g == get_instance(volume_id)
    IN  IF g.kind = "Err" THEN g ELSE g.instance.present[path]

----------------------------------------------------------------------------
(* core/src/fs/fat32.rs *)

\* Fat32Driver::detect (line 48): the stub reads nothing of the device.
Fat32Driver_detect(device) == FALSE

----------------------------------------------------------------------------
(* core/src/config/schema_types.rs and core/src/config/parser.rs              *)
(*                                                                          *)
(* A JSON object is a function from its keys to their values; a JSON text   *)
(* is [wellformed, value].  serde ignores the keys no field is named after. *)

EmptyObject == <<>>

FieldOr(obj, key, default) == IF key \in DOMAIN obj THEN obj[key] ELSE default
OptionField(obj, key) == IF key \in DOMAIN obj THEN Some(obj[key]) ELSE None

default_timeout_ms == 5000

InvalidFormat(template, arg) ==
    [kind |-> "Err", err |-> "InvalidFormat", msg |-> <<template, arg>>]
LogicError(template, arg) ==
    [kind |-> "Err", err |-> "LogicError", msg |-> <<template, arg>>]

\* #[serde(rename_all = "lowercase")] enum LogLevel
LogLevelOf(s) ==
    CASE s = "none" -> "None" [] s = "error" -> "Error" [] s = "warn" -> "Warn"
      [] s = "info" -> "Info" [] s = "debug" -> "Debug" [] s = "trace" -> "Trace"

\* #[serde(rename_all = "snake_case")] enum BootEntryType
BootEntryTypeOf(s) ==
    CASE s = "kernel_direct" -> "KernelDirect" [] s = "uefi_chainload" -> "UefiChainload"
      [] s = "uefi_application" -> "UefiApplication" [] s = "internal_tool" -> "InternalTool"

\* struct Theme: background and accent have no default.
ThemeRequired == {"background", "accent"}
deserialize_Theme(obj) ==
    [background |-> obj["background"], accent |-> obj["accent"],
     font |-> OptionField(obj, "font"),
     custom_properties |-> OptionField(obj, "customProperties")]

\* struct BootEntry under rename_all = "camelCase": id, title and kernel have no default.
BootEntryRequired == {"id", "title", "kernel"}
deserialize_BootEntry(obj) ==
    [id |-> obj["id"], title |-> obj["title"], kernel |-> obj["kernel"],
     initrd |-> OptionField(obj, "initrd"),
     cmdline |-> FieldOr(obj, "cmdline", ""),
     order |-> OptionField(obj, "order"),
     secure |-> FieldOr(obj, "secure", FALSE),
     icon |-> OptionField(obj, "icon"),
     entry_type |-> IF "type" \in DOMAIN obj THEN BootEntryTypeOf(obj["type"])
                    ELSE "KernelDirect",
     volume_id |-> OptionField(obj, "volumeId"),
     architecture |-> IF "architecture" \in DOMAIN obj THEN Some(obj["architecture"])
                      ELSE Some("any")]

\* struct AdvancedSettings under rename_all = "camelCase": every field has a default.
deserialize_AdvancedSettings(obj) ==
    [debug_shell |-> FieldOr(obj, "debugShell", FALSE),
     log_level |-> IF "logLevel" \in DOMAIN obj THEN LogLevelOf(obj["logLevel"]) ELSE "Info",
     enable_network_boot |-> FieldOr(obj, "enableNetworkBoot", FALSE),
     default_boot_entry_id |-> OptionField(obj, "defaultBootEntryId"),
     resolution |-> FieldOr(obj, "resolution", "auto"),
     show_countdown |-> FieldOr(obj, "showCountdown", TRUE),
     progress_bar_style |-> FieldOr(obj, "progressBarStyle", "modern"),
     enable_mouse |-> FieldOr(obj, "enableMouse", TRUE),
     enable_touch |-> FieldOr(obj, "enableTouch", FALSE)]

\* struct LblConfig under rename_all = "camelCase": theme and entries have no
\* default; timeout_ms is read from the key "timeoutMs".
deserialize_LblConfig(obj) ==
    IF "theme" \in DOMAIN obj /\ ~(ThemeRequired \subseteq DOMAIN obj["theme"])
    THEN InvalidFormat("JSON parse error: missing field", "theme.*")
    ELSE IF "entries" \in DOMAIN obj
            /\ \E i \in DOMAIN obj["entries"] :
                   ~(BootEntryRequired \subseteq DOMAIN obj["entries"][i])
    THEN InvalidFormat("JSON parse error: missing field", "entries.*")
    ELSE IF "theme" \notin DOMAIN obj
    THEN InvalidFormat("JSON parse error: missing field", "theme")
    ELSE IF "entries" \notin DOMAIN obj
    THEN InvalidFormat("JSON parse error: missing field", "entries")
    ELSE [kind |-> "Ok",
          config |->
            [timeout_ms |-> FieldOr(obj, "timeoutMs", default_timeout_ms),
             theme |-> deserialize_Theme(obj["theme"]),
             entries |-> [i \in DOMAIN obj["entries"] |->
                             deserialize_BootEntry(obj["entries"][i])],
             plugins |-> FieldOr(obj, "plugins", <<>>),
             advanced |-> deserialize_AdvancedSettings(
                              FieldOr(obj, "advanced", EmptyObject))]]

\* The first entry whose id an earlier entry has: where BTreeSet::insert first
\* returns false (0 when the ids are pairwise distinct).
FirstDuplicate(entries) ==
    LET dups == {j \in DOMAIN entries : \E i \in 1..(j - 1) : entries[i].id = entries[j].id}
    IN  IF dups = {} THEN 0 ELSE CHOOSE j \in dups : \A k \in dups : j <= k

\* A plausible slip: the check for an empty entry list is left out.
validate_parsed_config_no_empty_check(config) ==
    LET default_id == config.advanced.default_boot_entry_id
        dup == FirstDuplicate(config.entries)
    IN  IF default_id # None
           /\ ~(\E i \in DOMAIN config.entries : config.entries[i].id = default_id[1])
        THEN LogicError("default_boot_entry_id does not match any entry ID", default_id[1])
        ELSE IF dup # 0
        THEN LogicError("Duplicate boot entry ID found", config.entries[dup].id)
        ELSE [kind |-> "Ok"]

validate_parsed_config(config) ==
    LET default_id == config.advanced.default_boot_entry_id
        dup == FirstDuplicate(config.entries)
    IN  IF default_id # None
           /\ ~(\E i \in DOMAIN config.entries : config.entries[i].id = default_id[1])
        THEN LogicError("default_boot_entry_id does not match any entry ID", default_id[1])
        ELSE IF dup # 0
        THEN LogicError("Duplicate boot entry ID found", config.entries[dup].id)
        ELSE IF config.entries = <<>>
        THEN LogicError("Configuration must contain at least one boot entry", "")
        ELSE [kind |-> "Ok"]

parse_config_json(json) ==
    IF ~json.wellformed THEN InvalidFormat("JSON parse error", "syntax")
    ELSE LET d == deserialize_LblConfig(json.value)
         IN  IF d.kind = "Err" THEN d
             ELSE LET v == validate_parsed_config(d.config)
                  IN  IF v.kind = "Err" THEN v ELSE d

----------------------------------------------------------------------------
(* core/src/config.rs *)

DEFAULT_CONFIG_PATH_PRIMARY == "/LBL/config.json"
DEFAULT_CONFIG_PATH_SECONDARY == "/boot/lbl/config.json"
DEFAULT_CONFIG_PATH_FALLBACK == "/config.json"

\* A plausible slip: the fallback path is searched first.
search_paths_fallback_first ==
    <<DEFAULT_CONFIG_PATH_FALLBACK, DEFAULT_CONFIG_PATH_PRIMARY, DEFAULT_CONFIG_PATH_SECONDARY>>

search_paths ==
    <<DEFAULT_CONFIG_PATH_PRIMARY, DEFAULT_CONFIG_PATH_SECONDARY, DEFAULT_CONFIG_PATH_FALLBACK>>

\* The (volume id, path) pairs in the order the two nested loops visit them.
SearchPairs ==
    LET vols == list_mounted_volumes
        n == Len(search_paths)
    IN  [k \in 1..(Len(vols) * n) |->
            <<vols[((k - 1) \div n) + 1].id, search_paths[((k - 1) % n) + 1]>>]

\* A plausible slip: a file that cannot be decoded or validated is passed over
\* and the search goes on.
RECURSIVE SearchFrom_past_bad_files(_, _)
SearchFrom_past_bad_files(pairs, k) ==
    IF k > Len(pairs) THEN [result |-> [kind |-> "Err", err |-> "FileNotFound"], reads |-> k - 1]
    ELSE LET r == read_file(pairs[k][1], pairs[k][2])
             parsed == IF ~r.data.utf8 THEN InvalidFormat("UTF-8 decoding error", "")
                       ELSE parse_config_json(r.data.text)
         IN  IF r.kind = "Ok" /\ parsed.kind = "Ok"
             THEN [result |-> parsed, reads |-> k]
             ELSE SearchFrom_past_bad_files(pairs, k + 1)

\* The loops of load_configuration from pair k on: the result, and the number of
\* pairs read.
RECURSIVE SearchFrom(_, _)
SearchFrom(pairs, k) ==
    IF k > Len(pairs) THEN [result |-> [kind |-> "Err", err |-> "FileNotFound"], reads |-> k - 1]
    ELSE LET r == read_file(pairs[k][1], pairs[k][2])
         IN  IF r.kind = "Ok"
             THEN [result |->
                       IF ~r.data.utf8 THEN InvalidFormat("UTF-8 decoding error", "")
                       ELSE parse_config_json(r.data.text),
                   reads |-> k]
             ELSE SearchFrom(pairs, k + 1)

\* A plausible slip: the test for an empty volume list is left out.
load_configuration_no_empty_check ==
    LET s == SearchFrom(SearchPairs, 1)
    IN  /\ cfg_result' = s.result
        /\ cfg_reads' = SubSeq(SearchPairs, 1, s.reads)

load_configuration ==
    IF Len(list_mounted_volumes) = 0
    THEN /\ cfg_result' = [kind |-> "Err", err |-> "NoVolumesMounted"]
         /\ cfg_reads' = <<>>
    ELSE LET s == SearchFrom(SearchPairs, 1)
         IN  /\ cfg_result' = s.result
             /\ cfg_reads' = SubSeq(SearchPairs, 1, s.reads)


----------------------------------------------------------------------------
(* core/src/loader/kernel_formats.rs                                        *)
(*                                                                          *)
(* Addresses and sizes are AddrWidth-bit unsigned integers (u64 in the      *)
(* source).  An image is [elf64, entry, phdrs, data]: whether it starts     *)
(* with the ELF magic and class byte 2, the entry field of its header, its  *)
(* program headers [type, offset, vaddr, filesz, memsz], and the bytes that *)
(* segment offsets index (offset 0 is the first of them).                   *)

AddrWidth == 2
AddrModulus == 2 ^ AddrWidth
U64_MAX == AddrModulus - 1
Addresses == 0..U64_MAX

\* What memory holds before anything is loaded: neither zero nor a file byte.
FreshMemory == [a \in Addresses |-> 9]

IsLoadable(ph) == ph.type = "Load" /\ ph.memsz # 0

\* A plausible slip: segments with no memory footprint are not skipped.
IsLoadSegment_no_skip(ph) == ph.type = "Load"

\* The test of lines 135 and 142: a LOAD header that is not skipped.
IsLoadSegment(ph) == IsLoadable(ph)

\* dest_slice[from..to] written with the bytes `bytes`; addresses wrap as pointer
\* arithmetic does in a build without overflow checks.
WriteSlice(mem, base, from, bytes) ==
    [a \in DOMAIN mem |->
        IF \E i \in DOMAIN bytes : (base + from + i - 1) % AddrModulus = a
        THEN bytes[CHOOSE i \in DOMAIN bytes :
                       /\ (base + from + i - 1) % AddrModulus = a
                       /\ \A j \in DOMAIN bytes :
                              (base + from + j - 1) % AddrModulus = a => j <= i]
        ELSE mem[a]]

LoadErr(kind, msg) == [kind |-> "Err", err |-> kind, msg |-> msg]

\* The loop over elf.program_iter() from header i on.  `checked` says whether the
\* build panics on arithmetic overflow (debug) or wraps (release).
RECURSIVE LoadSegments(_, _, _, _, _, _)
LoadSegments(elf, i, min_load_addr, max_load_addr_plus_size, mem, checked) ==
    IF i > Len(elf.phdrs)
    THEN [min |-> min_load_addr, max |-> max_load_addr_plus_size, mem |-> mem,
          stop |-> [kind |-> "none"]]
    ELSE LET ph == elf.phdrs[i]
             sum == ph.vaddr + ph.memsz
             min2 == IF ph.vaddr < min_load_addr THEN ph.vaddr ELSE min_load_addr
             max2 == IF sum % AddrModulus > max_load_addr_plus_size
                     THEN sum % AddrModulus ELSE max_load_addr_plus_size
             copied == WriteSlice(mem, ph.vaddr, 0,
                                  SubSeq(elf.data, ph.offset + 1, ph.offset + ph.filesz))
             zeroed == IF ph.memsz > ph.filesz
                       THEN WriteSlice(IF ph.filesz > 0 THEN copied ELSE mem, ph.vaddr,
                                       ph.filesz, [k \in 1..(ph.memsz - ph.filesz) |-> 0])
                       ELSE IF ph.filesz > 0 THEN copied ELSE mem
         IN  IF ~IsLoadSegment(ph)
             THEN LoadSegments(elf, i + 1, min_load_addr, max_load_addr_plus_size,
                               mem, checked)
             ELSE IF sum >= AddrModulus /\ checked
             THEN [min |-> min2, max |-> max_load_addr_plus_size, mem |-> mem,
                   stop |-> [kind |-> "Panic", msg |-> "attempt to add with overflow"]]
             ELSE IF ph.filesz > 0 /\ ph.offset + ph.filesz > Len(elf.data)
             THEN [min |-> min2, max |-> max2, mem |-> mem,
                   stop |-> LoadErr("SegmentLoadFailed",
                                    "Segment data out of bounds in ELF file")]
             ELSE IF ph.filesz > ph.memsz
             THEN [min |-> min2, max |-> max2, mem |-> mem,
                   stop |-> [kind |-> "Panic", msg |-> "range end index out of range"]]
             ELSE LoadSegments(elf, i + 1, min2, max2, zeroed, checked)

load_elf64_kernel(elf, mem, checked) ==
    LET r == LoadSegments(elf, 1, U64_MAX, 0, mem, checked)
    IN  IF r.stop.kind # "none" THEN [result |-> r.stop, mem |-> r.mem]
        ELSE IF r.min = U64_MAX
        THEN [result |-> LoadErr("InvalidFormat", "ELF file has no loadable segments."),
              mem |-> r.mem]
        ELSE [result |-> [kind |-> "Ok",
                          info |-> [entry_point |-> elf.entry, load_address |-> r.min,
                                    size |-> r.max - r.min, stack_ptr |-> None]],
              mem |-> r.mem]

is_elf64(image) == image.elf64

load_kernel(image, mem, checked) ==
    IF is_elf64(image) THEN load_elf64_kernel(image, mem, checked)
    ELSE [result |-> LoadErr("UnsupportedFormat", "Kernel image format not recognized."),
          mem |-> mem]

----------------------------------------------------------------------------
(* core/src/security.rs, core/src/security/signature.rs, core/src/loader.rs *)
(* and core/src/loader/arch_adapter.rs                                      *)

EmptyImage == [elf64 |-> FALSE, entry |-> 0, phdrs |-> <<>>, data |-> <<>>]

\* <[u8]>::is_empty for the contents of a kernel file or of a signature file.
is_empty(data) == data = <<>> \/ data = EmptyImage

\* verify_signature: the stub refuses empty data with an empty signature and
\* accepts everything else.
verify_signature(data, signature_data) ==
    IF is_empty(data) /\ is_empty(signature_data)
    THEN [kind |-> "Err", err |-> "Other"]
    ELSE [kind |-> "Ok", valid |-> TRUE]

\* The first volume of list_mounted_volumes on which `path` can be read (0: none).
FirstVolumeWith(path) ==
    LET vols == list_mounted_volumes
        hits == {i \in DOMAIN vols : read_file(vols[i].id, path).kind = "Ok"}
    IN  IF hits = {} THEN 0 ELSE CHOOSE i \in hits : \A j \in hits : i <= j

signature_path(kernel_path) == kernel_path \o ".sig"

\* verify_boot_entry: its result, and what it measured into the TPM.
verify_boot_entry(entry) ==
    LET vols == list_mounted_volumes
        k == FirstVolumeWith(entry.kernel)
        g == FirstVolumeWith(signature_path(entry.kernel))
        kernel_file == read_file(vols[k].id, entry.kernel).data
        v == verify_signature(kernel_file,
                              read_file(vols[g].id, signature_path(entry.kernel)).data)
        measure_initrd ==
            /\ entry.initrd # None
            /\ entry.initrd[1] # ""
            /\ read_file(vols[k].id, entry.initrd[1]).kind = "Ok"
    IN  IF ~entry.secure THEN [kind |-> "Ok", measured |-> <<>>]
        ELSE IF k = 0 THEN [kind |-> "Err", err |-> "ConfigError", measured |-> <<>>]
        ELSE IF g = 0 THEN [kind |-> "Err", err |-> "ConfigError", measured |-> <<>>]
        ELSE IF v.kind = "Err" THEN [kind |-> "Err", err |-> v.err, measured |-> <<>>]
        ELSE IF ~v.valid
        THEN [kind |-> "Err", err |-> "SignatureVerificationFailed", measured |-> <<>>]
        ELSE [kind |-> "Ok",
              measured |-> IF ~tpm_available THEN <<>>
                           ELSE IF measure_initrd THEN <<"KernelImage", "InitrdImage">>
                           ELSE <<"KernelImage">>]

\* A plausible slip: a verification failure is logged and the boot goes on.
on_verify_error_continue == "resolve"

\* Where execute_boot goes when verify_boot_entry returns an error: panic!.
on_verify_error == "panic"

\* execute_boot, step 1: the security verification of a secure entry.
Verify ==
    /\ boot_pc = "entry"
    /\ IF boot_entry.secure
       THEN LET r == verify_boot_entry(boot_entry)
            IN  IF r.kind = "Ok"
                THEN /\ boot_pc' = "resolve"
                     /\ boot_log' = boot_log \o <<"verify_ok">> \o r.measured
                ELSE /\ boot_pc' = on_verify_error
                     /\ boot_log' = Append(boot_log, "verify_err")
       ELSE boot_pc' = "resolve" /\ boot_log' = Append(boot_log, "verify_skipped")
    /\ UNCHANGED <<boot_entry, boot_env, tpm_available, next_alloc_addr, firmware, elfVars,
                   fsVars, cfgVars, parseVars, guiVars, halVars, stageVars,
                   logVars, inputVars>>

\* execute_boot, lines 83 to 139: the volume to load from, then the entry type.
\* The build targets x86_64 without an operating system, so the UEFI entry types
\* are not supported; an internal tool halts.
ResolveVolume ==
    /\ boot_pc = "resolve"
    /\ LET vols == list_mounted_volumes
           found == boot_entry.volume_id # None \/ Len(vols) > 0
       IN  /\ boot_env' = [boot_env EXCEPT !.volume =
                              IF boot_entry.volume_id # None THEN boot_entry.volume_id
                              ELSE IF Len(vols) > 0 THEN Some(vols[1].id) ELSE None]
           /\ boot_pc' = IF found /\ boot_entry.entry_type = "KernelDirect"
                         THEN "read_kernel" ELSE "panic"
    /\ UNCHANGED <<boot_entry, boot_log, tpm_available, next_alloc_addr, firmware, elfVars,
                   fsVars, cfgVars, parseVars, guiVars, halVars, stageVars,
                   logVars, inputVars>>

\* load_and_execute_kernel, lines 152 to 158.
ReadKernel ==
    /\ boot_pc = "read_kernel"
    /\ LET r == read_file(boot_env.volume[1], boot_entry.kernel)
       IN  /\ boot_log' = Append(boot_log, "read_kernel")
           /\ IF r.kind = "Ok"
              THEN boot_pc' = "load_kernel" /\ kernel_data' = r.data
              ELSE boot_pc' = "panic" /\ UNCHANGED kernel_data
    /\ UNCHANGED <<boot_entry, boot_env, tpm_available, next_alloc_addr, firmware,
                   memory, load_result, fsVars, cfgVars, parseVars, guiVars,
                   halVars, stageVars,
                   logVars, inputVars>>

\* A plausible slip: an empty initrd path counts as an initrd.
has_initrd_even_if_empty(entry) == entry.initrd # None

\* The test of lines 186 and 187: the entry names an initrd, and not by "".
has_initrd(entry) == entry.initrd # None /\ entry.initrd[1] # ""

\* load_and_execute_kernel, lines 175 to 181.
LoadKernelImage ==
    /\ boot_pc = "load_kernel"
    /\ \E checked \in BOOLEAN :
           LET r == load_kernel(kernel_data, memory, checked)
           IN  /\ memory' = r.mem
               /\ load_result' = r.result
               /\ boot_pc' = IF r.result.kind # "Ok" THEN "panic"
                             ELSE IF has_initrd(boot_entry)
                             THEN "read_initrd" ELSE "adapter"
    /\ boot_log' = Append(boot_log, "load_kernel")
    /\ UNCHANGED <<boot_entry, boot_env, tpm_available, next_alloc_addr, firmware,
                   kernel_data, fsVars, cfgVars, parseVars, guiVars, halVars, stageVars,
                   logVars, inputVars>>

\* static mut NEXT_ALLOC_ADDR: u64 = 0x0200_0000
NEXT_ALLOC_ADDR == 33554432

\* A plausible slip: the bump pointer is handed out as it is, without aligning it.
allocate_contiguous_memory_unaligned(next, size, alignment) ==
    [addr |-> next, next |-> next + size]

\* allocate_contiguous_memory: the address handed out and the bump pointer after
\* the call.  The sizes of the model stay far below the overflow that checked_add
\* guards against.
allocate_contiguous_memory(next, size, alignment) ==
    LET current_addr == ((next + alignment - 1) \div alignment) * alignment
    IN  [addr |-> current_addr, next |-> current_addr + size]

\* load_initrd: the image is copied to freshly allocated, 16-byte aligned memory.
load_initrd(next, mem, initrd_data) ==
    LET a == allocate_contiguous_memory(next, Len(initrd_data), 16)
    IN  [info |-> [load_address |-> a.addr, size |-> Len(initrd_data)],
         next |-> a.next,
         mem |-> [x \in DOMAIN mem \cup {a.addr + i - 1 : i \in DOMAIN initrd_data} |->
                     IF x >= a.addr /\ x < a.addr + Len(initrd_data)
                     THEN initrd_data[x - a.addr + 1] ELSE mem[x]]]

\* load_and_execute_kernel, lines 186 to 225: read the initrd, then stage it.
LoadInitrd ==
    /\ boot_pc = "read_initrd"
    /\ LET r == read_file(boot_env.volume[1], boot_entry.initrd[1])
       IN  IF r.kind = "Ok"
           THEN LET l == load_initrd(next_alloc_addr, memory, r.data)
                IN  /\ boot_log' = boot_log \o <<"read_initrd", "load_initrd">>
                    /\ memory' = l.mem
                    /\ next_alloc_addr' = l.next
                    /\ staged' = Append(staged, [info |-> l.info, data |-> r.data])
                    /\ boot_env' = [boot_env EXCEPT !.initrd = Some(l.info)]
                    /\ boot_pc' = "adapter"
           ELSE /\ boot_log' = Append(boot_log, "read_initrd")
                /\ boot_pc' = "panic"
                /\ UNCHANGED <<memory, next_alloc_addr, staged, boot_env>>
    /\ UNCHANGED <<boot_entry, tpm_available, firmware, kernel_data, load_result,
                   fsVars, cfgVars, parseVars, guiVars, halVars,
                   logVars, inputVars>>

\* prepare_and_jump_to_kernel and jump_to_kernel_x86_64: the boot parameters are
\* filled in and control passes to the kernel.  The adapter makes no firmware call:
\* the ExitBootServices call of lines 124 to 130 is commented out and the memory
\* map fields are set to 0.
jump_to_kernel_x86_64 ==
    /\ boot_pc = "adapter"
    /\ boot_env' = [boot_env EXCEPT !.params =
           Some([kernel_entry |-> load_result.info.entry_point,
                 kernel_base |-> load_result.info.load_address,
                 kernel_size |-> load_result.info.size,
                 initrd_base |-> IF boot_env.initrd = None THEN 0
                                 ELSE boot_env.initrd[1].load_address,
                 initrd_size |-> IF boot_env.initrd = None THEN 0
                                 ELSE boot_env.initrd[1].size,
                 cmdline_ptr |-> boot_entry.cmdline,
                 memory_map_ptr |-> 0, memory_map_entries |-> 0])]
    /\ boot_log' = Append(boot_log, "adapter")
    /\ boot_pc' = "jumped"
    /\ UNCHANGED <<boot_entry, tpm_available, next_alloc_addr, firmware, elfVars,
                   fsVars, cfgVars, parseVars, guiVars, halVars, stageVars,
                   logVars, inputVars>>

----------------------------------------------------------------------------
(* gui/src/ui.rs *)

TimeModulus == 2 ^ TimeWidth

\* u64::saturating_sub and u32::saturating_sub
saturating_sub(a, b) == IF a > b THEN a - b ELSE 0

\* A plausible slip: the counter is stepped down instead of up.
get_current_time_ms_backwards == (fake_time + TimeModulus - 16) % TimeModulus

\* get_current_time_ms: FAKE_TIME += 16, then its value.  FAKE_TIME is a u64 that
\* no run exhausts; the clock of the model has TimeWidth bits and wraps the way
\* the u64 does.
get_current_time_ms == (fake_time + 16) % TimeModulus

\* GuiSelectionResult::BootEntrySelected
BootEntrySelected(entry) == [kind |-> "BootEntrySelected", entry |-> entry]

\* entries.iter().position(|e| &e.id == default_id), None when no entry has the id.
position(entries, id) ==
    LET hits == {i \in DOMAIN entries : entries[i].id = id}
    IN  IF hits = {} THEN None ELSE Some((CHOOSE i \in hits : \A j \in hits : i <= j) - 1)

\* run_loop, lines 66 to 77: the initial UiState.
run_loop_enter ==
    /\ gui_pc = "start"
    /\ LET default_id == gui_config.advanced.default_boot_entry_id
           pos == IF default_id = None THEN None
                  ELSE position(gui_config.entries, default_id[1])
       IN  ui_state' =
               [active_screen |-> "BootMenu",
                selected_entry_index |-> IF pos = None THEN 0 ELSE pos[1],
                should_exit_loop |-> FALSE,
                exit_result |-> None,
                countdown_timer_ms |-> IF gui_config.advanced.show_countdown
                                       THEN Some(gui_config.timeout_ms) ELSE None,
                last_tick_time_ms |-> get_current_time_ms,
                redraw_requested |-> TRUE]
    /\ fake_time' = get_current_time_ms
    /\ gui_pc' = "loop"
    /\ UNCHANGED <<gui_config, gui_result, elapsed_ms, fsVars, cfgVars, parseVars,
                   elfVars, bootVars, halVars, stageVars,
                   logVars, inputVars>>

\* One iteration of the loop of lines 85 to 153, poll_pending_event returning None.
run_loop_iteration ==
    /\ gui_pc = "loop"
    /\ ~ui_state.should_exit_loop
    /\ LET current_time_ms == get_current_time_ms
           delta_time_ms == saturating_sub(current_time_ms, ui_state.last_tick_time_ms)
           countdown == ui_state.countdown_timer_ms
           left == saturating_sub(countdown[1], delta_time_ms)
           ticked == [ui_state EXCEPT !.last_tick_time_ms = current_time_ms]
       IN  /\ fake_time' = current_time_ms
           /\ elapsed_ms' = IF elapsed_ms + delta_time_ms > TimeModulus
                            THEN TimeModulus ELSE elapsed_ms + delta_time_ms
           /\ ui_state' =
                IF countdown # None /\ countdown[1] > 0
                THEN IF left = 0
                     THEN [ticked EXCEPT
                             !.countdown_timer_ms = Some(0),
                             !.exit_result = Some(BootEntrySelected(
                                 gui_config.entries[ui_state.selected_entry_index + 1])),
                             !.should_exit_loop = TRUE]
                     ELSE [ticked EXCEPT !.countdown_timer_ms = Some(left),
                                         !.redraw_requested = FALSE]
                ELSE [ticked EXCEPT !.redraw_requested = FALSE]
    /\ UNCHANGED <<gui_config, gui_pc, gui_result, fsVars, cfgVars, parseVars, elfVars,
                   bootVars, halVars, stageVars,
                   logVars, inputVars>>

\* A plausible slip: Up on the first entry stays there.
select_previous_clamped(idx, len) == IF idx > 0 THEN idx - 1 ELSE 0

\* KeyCode::UpArrow, lines 173 to 177: one entry up, from the first to the last.
select_previous(idx, len) == IF idx > 0 THEN idx - 1 ELSE saturating_sub(len, 1)

\* KeyCode::DownArrow, lines 181 to 185: one entry down, from the last to the first.
select_next(idx, len) == IF idx < saturating_sub(len, 1) THEN idx + 1 ELSE 0

\* handle_input_event for a key press: the UiState after it.  On the boot menu
\* Up and Down move the selection and wrap, Enter selects, Escape and F10 leave
\* the loop, F2 and S open the settings; there only Escape does anything.
handle_input_event(ui, key_code) ==
    LET len == Len(gui_config.entries)
        seen == [ui EXCEPT !.redraw_requested = TRUE]
        idx == ui.selected_entry_index
    IN  IF ui.active_screen = "BootMenu"
        THEN CASE key_code = "UpArrow" ->
                    [seen EXCEPT !.selected_entry_index = select_previous(idx, len),
                                 !.countdown_timer_ms = None]
               [] key_code = "DownArrow" ->
                    [seen EXCEPT !.selected_entry_index = select_next(idx, len),
                                 !.countdown_timer_ms = None]
               [] key_code = "Enter" ->
                    IF idx < len
                    THEN [seen EXCEPT !.exit_result =
                                          Some(BootEntrySelected(gui_config.entries[idx + 1])),
                                      !.should_exit_loop = TRUE]
                    ELSE seen
               [] key_code = "Escape" ->
                    [seen EXCEPT !.exit_result = Some([kind |-> "Reboot"]),
                                 !.should_exit_loop = TRUE]
               [] key_code = "F1" -> seen
               [] key_code \in {"F2", "S"} ->
                    [seen EXCEPT !.active_screen = "Settings", !.countdown_timer_ms = None]
               [] key_code = "F10" ->
                    [seen EXCEPT !.exit_result = Some([kind |-> "EnterDebugShell"]),
                                 !.should_exit_loop = TRUE]
               [] OTHER -> [seen EXCEPT !.redraw_requested = FALSE]
        ELSE IF key_code = "Escape"
        THEN [seen EXCEPT !.active_screen = "BootMenu",
                          !.countdown_timer_ms =
                              IF gui_config.advanced.show_countdown
                              THEN Some(gui_config.timeout_ms) ELSE @]
        ELSE [seen EXCEPT !.redraw_requested = FALSE]

RECURSIVE handle_pending_events(_, _)
\* The loop of lines 110 to 113: the pending events are handled in order until
\* one of them ends the loop.
handle_pending_events(ui, events) ==
    IF events = <<>> \/ ui.should_exit_loop THEN ui
    ELSE handle_pending_events(handle_input_event(ui, Head(events)), Tail(events))

\* draw_boot_menu_screen: the lines of the entry list from top to bottom, each
\* with its number, the title of its entry and whether it is highlighted.
draw_boot_menu_screen(ui) ==
    [index \in DOMAIN gui_config.entries |->
        [number |-> index, title |-> gui_config.entries[index].title,
         selected |-> index - 1 = ui.selected_entry_index]]

\* One iteration of the loop of lines 85 to 153 in which poll_pending_event
\* returns the given key presses, one after another, and then None.
run_loop_iteration_events(key_codes) ==
    /\ gui_pc = "loop"
    /\ ~ui_state.should_exit_loop
    /\ LET current_time_ms == get_current_time_ms
           delta_time_ms == saturating_sub(current_time_ms, ui_state.last_tick_time_ms)
           countdown == ui_state.countdown_timer_ms
           left == saturating_sub(countdown[1], delta_time_ms)
           ticked == [ui_state EXCEPT !.last_tick_time_ms = current_time_ms]
           timed == IF countdown # None /\ countdown[1] > 0
                    THEN IF left = 0
                         THEN [ticked EXCEPT
                                 !.countdown_timer_ms = Some(0),
                                 !.exit_result = Some(BootEntrySelected(
                                     gui_config.entries[ui_state.selected_entry_index + 1])),
                                 !.should_exit_loop = TRUE]
                         ELSE [ticked EXCEPT !.countdown_timer_ms = Some(left),
                                             !.redraw_requested = TRUE]
                    ELSE ticked
           handled == handle_pending_events(timed, key_codes)
       IN  /\ fake_time' = current_time_ms
           /\ elapsed_ms' = IF elapsed_ms + delta_time_ms > TimeModulus
                            THEN TimeModulus ELSE elapsed_ms + delta_time_ms
           /\ ui_state' = IF handled.should_exit_loop THEN handled
                          ELSE [handled EXCEPT !.redraw_requested = FALSE]
    /\ UNCHANGED <<gui_config, gui_pc, gui_result, fsVars, cfgVars, parseVars, elfVars,
                   bootVars, halVars, stageVars,
                   logVars, inputVars>>

\* run_loop, lines 155 to 159: the loop is left and the result returned.
run_loop_return ==
    /\ gui_pc = "loop"
    /\ ui_state.should_exit_loop
    /\ gui_pc' = "done"
    /\ gui_result' = IF ui_state.exit_result # None THEN ui_state.exit_result[1]
                     ELSE [kind |-> "Error"]
    /\ UNCHANGED <<gui_config, ui_state, fake_time, elapsed_ms, fsVars, cfgVars,
                   parseVars, elfVars, bootVars, halVars, stageVars,
                   logVars, inputVars>>

----------------------------------------------------------------------------
(* core/src/hal.rs, core/src/hal/device_manager.rs and                      *)
(* core/src/hal/async_probe.rs (the build with the with_alloc feature)      *)
(*                                                                          *)
(* A Device is [id, name, device_type].  The two BTreeMaps of the device    *)
(* manager are functions from the keys they hold.                           *)

\* BootInfo::LBL_BOOT_INFO_MAGIC
LBL_BOOT_INFO_MAGIC == "LBL_BI_MGC"

\* DeviceManager::new
DeviceManager_new == [devices |-> <<>>, device_ids_by_type |-> <<>>, next_device_id |-> 1]

\* hal::initialize (the pointer is None when null, else Some(the record it points
\* to)): a null pointer is refused before it is read, then the magic of the
\* record is compared; no other field is looked at.
initialize(boot_info_ptr) ==
    IF boot_info_ptr = None THEN [kind |-> "Err", err |-> "NullBootInfo"]
    ELSE IF boot_info_ptr[1].magic # LBL_BOOT_INFO_MAGIC
    THEN [kind |-> "Err", err |-> "InvalidBootInfoMagic"]
    ELSE [kind |-> "Ok", boot_info |-> boot_info_ptr[1], device_manager |-> DeviceManager_new]

\* DeviceManager::add_device: the manager after the call and the device as stored.
add_device(dm, device_info) ==
    LET id == IF device_info.id = 0 THEN dm.next_device_id ELSE device_info.id
        next == IF device_info.id = 0 THEN dm.next_device_id + 1
                ELSE IF device_info.id >= dm.next_device_id THEN device_info.id + 1
                ELSE dm.next_device_id
        stored == [device_info EXCEPT !.id = id]
        ty == device_info.device_type
        ids == IF ty \in DOMAIN dm.device_ids_by_type THEN dm.device_ids_by_type[ty] ELSE <<>>
    IN  [dm |-> [devices |-> [d \in DOMAIN dm.devices \cup {id} |->
                                 IF d = id THEN stored ELSE dm.devices[d]],
                 device_ids_by_type |->
                     [t \in DOMAIN dm.device_ids_by_type \cup {ty} |->
                         IF t = ty THEN Append(ids, id) ELSE dm.device_ids_by_type[t]],
                 next_device_id |-> next],
         stored |-> stored]

\* DeviceManager::get_device_by_id
get_device_by_id(dm, id) == IF id \in DOMAIN dm.devices THEN Some(dm.devices[id]) ELSE None

\* DeviceManager::get_devices_by_type
get_devices_by_type(dm, device_type) ==
    IF device_type \notin DOMAIN dm.device_ids_by_type THEN <<>>
    ELSE LET ids == dm.device_ids_by_type[device_type]
             known == SelectSeq(ids, LAMBDA id : id \in DOMAIN dm.devices)
         IN  [i \in DOMAIN known |-> dm.devices[known[i]]]

\* The device classes start_probes makes one task for.
ProbeClasses == <<"Storage", "Network", "Gpu", "Input">>

\* async_probe::start_probes: one boxed future per class, none of them polled yet.
start_probes ==
    [tasks |-> [i \in DOMAIN ProbeClasses |-> [class |-> ProbeClasses[i], state |-> "created"]],
     total_tasks |-> Len(ProbeClasses),
     completed_tasks |-> 0]

\* ProbeHandle::poll_progress: the handle after the call and what the call
\* returns.  The futures are not polled; the counter is set to the total.
poll_progress(handle) ==
    LET after == IF handle.completed_tasks < handle.total_tasks
                 THEN [handle EXCEPT !.completed_tasks = handle.total_tasks]
                 ELSE handle
    IN  [handle |-> after, result |-> after.completed_tasks = after.total_tasks]

\* ProbeHandle::is_complete
is_complete(handle) == handle.completed_tasks = handle.total_tasks

----------------------------------------------------------------------------
(* The states the subsystems rest in while another specification runs. *)

CfgIdle == cfg_result = [kind |-> "none"] /\ cfg_reads = <<>>
ParseIdle ==
    /\ parse_input = [wellformed |-> FALSE, value |-> EmptyObject]
    /\ parse_result = [kind |-> "none"]
ElfIdle ==
    /\ kernel_data = [elf64 |-> FALSE, entry |-> 0, phdrs |-> <<>>, data |-> <<>>]
    /\ memory = FreshMemory
    /\ load_result = [kind |-> "none"]
BootIdle ==
    /\ boot_entry = [secure |-> FALSE] /\ boot_pc = "idle" /\ boot_log = <<>>
    /\ boot_env = [volume |-> None, initrd |-> None, params |-> None]
    /\ tpm_available = FALSE /\ next_alloc_addr = NEXT_ALLOC_ADDR
    /\ firmware = [kind |-> "bios", map_key |-> 0, calls |-> <<>>]
GuiIdle ==
    /\ gui_config = EmptyObject /\ gui_pc = "idle" /\ ui_state = EmptyObject
    /\ gui_result = [kind |-> "none"] /\ fake_time = 0 /\ elapsed_ms = 0
HalIdle ==
    /\ hal_call = [kind |-> "none"] /\ device_manager = None /\ published = <<>>
    /\ probe_handle = None
StageIdle == staged = <<>>

\* logger.rs 13-19: the static logger starts with the Info filter; the log facade
\* starts without a logger and with its maximum level Off.
LogIdle ==
    /\ LOGGER_INSTANCE = [level_filter |-> 3]
    /\ log_facade = [logger_set |-> FALSE, max_level |-> "Off"]
    /\ log_call = [op |-> "none", level |-> "Off", emitted |-> FALSE, last_set |-> None]

\* input.rs 116: the queue starts as None.
InputIdle ==
    /\ INPUT_EVENT_QUEUE = None
    /\ input_call = [op |-> "none", before |-> None, event |-> None, result |-> None]
    /\ accepted = <<>>
    /\ delivered = <<>>

----------------------------------------------------------------------------
(* SpecFs: drivers are registered and devices are mounted, in any order. *)

Paths == {DEFAULT_CONFIG_PATH_PRIMARY, DEFAULT_CONFIG_PATH_SECONDARY,
          DEFAULT_CONFIG_PATH_FALLBACK}

NotFound == [kind |-> "Err", err |-> "NotFound"]
IoError == [kind |-> "Err", err |-> "IoError"]

EmptyInstance == [files |-> [p \in Paths |-> NotFound], read_only |-> TRUE]

InitFs == FilesystemManager_new /\ CfgIdle /\ HalIdle /\ StageIdle /\ LogIdle /\ InputIdle /\ ParseIdle /\ ElfIdle /\ BootIdle /\ GuiIdle

RegisterDriver ==
    /\ \E name \in DriverNames : register_driver(name)
    /\ UNCHANGED <<cfgVars, parseVars, elfVars, bootVars, guiVars, halVars, stageVars,
                   logVars, inputVars>>

MountVolume ==
    /\ \E device_name \in DeviceNames, outcomes \in [1..Len(drivers) -> DriverOutcomes] :
           /\ next_volume_numeric_id + IdsGenerated(1, outcomes) <= MaxVolumeNumericId + 1
           /\ mount_volume_from_device(device_name, outcomes, EmptyInstance)
    /\ UNCHANGED <<cfgVars, parseVars, elfVars, bootVars, guiVars, halVars, stageVars,
                   logVars, inputVars>>

NextFs == RegisterDriver \/ MountVolume

SpecFs == InitFs /\ [][NextFs]_vars

\* C1: the volume ids returned by the successful mount_volume_from_device calls are
\* pairwise distinct, and no successful mount replaces an entry of the mount table:
\* every returned id is a key of the table and the table has as many entries as
\* there were successful mounts.
C1_VolumeIdsDistinct ==
    /\ \A i, j \in DOMAIN returned_ids : i # j => returned_ids[i] # returned_ids[j]
    /\ \A i \in DOMAIN returned_ids : returned_ids[i] \in DOMAIN mounted_volumes
    /\ Cardinality(DOMAIN mounted_volumes) = Len(returned_ids)

\* Two successful mounts whose ids differ in the counter alone, with a detecting
\* driver's failed mount between the first id and the last.
C1_Witness ==
    /\ Len(returned_ids) = 2
    /\ next_volume_numeric_id = 4
    /\ SubSeq(returned_ids[1], 6, Len(returned_ids[1]))
           = SubSeq(returned_ids[2], 6, Len(returned_ids[2]))

\* C13: the drivers are consulted in registration order and the volume is mounted
\* by the first that detects the device and whose mount succeeds: every driver up
\* to that one is asked to detect, those that detect are asked to mount, in order,
\* no later driver is asked anything, and the returned Volume carries that driver's
\* name and is the record stored in the mount table under the returned id.
C13_FirstMountingDriverWins ==
    mount_call.kind = "done" =>
        LET o == mount_call.outcomes
            ok == {i \in DOMAIN o : o[i] = "mountok"}
            w == CHOOSE i \in ok : \A j \in ok : i <= j
            IsDetect(c) == c.call = "detect"
            IsMount(c) == c.call = "mount"
            detecting == {i \in 1..w : o[i] # "nodetect"}
            mounts == SelectSeq(mount_call.calls, IsMount)
        IN  ok # {} =>
              /\ mount_result.kind = "Ok"
              /\ mount_result.volume.fs_type = drivers[w]
              /\ mount_result.volume.id \in DOMAIN mounted_volumes
              /\ mounted_volumes[mount_result.volume.id].lbl_volume_info
                     = mount_result.volume
              /\ SelectSeq(mount_call.calls, IsDetect)
                     = [i \in 1..w |-> [driver |-> i, call |-> "detect"]]
              /\ {mounts[k].driver : k \in DOMAIN mounts} = detecting
              /\ Len(mounts) = Cardinality(detecting)
              /\ \A k \in 1..(Len(mount_call.calls) - 1) :
                     mount_call.calls[k].driver <= mount_call.calls[k + 1].driver

\* The first driver detected the device and failed to mount it, the second one
\* mounted it.
C13_Witness ==
    /\ mount_call.kind = "done"
    /\ mount_call.outcomes = <<"mountfail", "mountok">>
    /\ mount_result.kind = "Ok"
    /\ mount_result.volume.fs_type = drivers[2]
    /\ drivers[1] # drivers[2]

\* C14: mount_volume_from_device returns Unsupported exactly when no registered
\* driver both detects the device and mounts it (none being registered included),
\* and the mount table is then what it was before the call.
C14_UnsupportedIffNoDriverMounts ==
    mount_call.kind = "done" =>
        LET failed == mount_result = [kind |-> "Err", err |-> "Unsupported"]
        IN  /\ failed <=> (\A i \in DOMAIN mount_call.outcomes :
                               mount_call.outcomes[i] # "mountok")
            /\ failed => mounted_volumes = mount_call.before
            /\ ~failed => mount_result.kind = "Ok"

\* With one volume mounted, a call in which one driver detects and fails to mount
\* and the other does not detect.
C14_Witness ==
    /\ mount_call.kind = "done"
    /\ mount_call.outcomes = <<"mountfail", "nodetect">>
    /\ mount_result = [kind |-> "Err", err |-> "Unsupported"]
    /\ mount_call.before # <<>>
    /\ mounted_volumes = mount_call.before

----------------------------------------------------------------------------
(* SpecCfg: one driver is registered, volumes are mounted, then the           *)
(* configuration is loaded (steps 4 and 5 of lbl_core_entry).               *)

CfgDevice == <<"d", "_", "1">>
CfgDriver == <<"F", "A", "T">>

ThemeObject == [background |-> "#000000", accent |-> "#ffffff"]
EntryObject(id) == [id |-> id, title |-> "T", kernel |-> "/k"]

PathRank(p) ==
    CASE p = "/LBL/config.json" -> 1 [] p = "/boot/lbl/config.json" -> 2
      [] p = "/config.json" -> 3

\* The file at path p of the n-th volume: a valid document that the timeout
\* value tells apart from the file at any other place.
CfgFile(n, p) ==
    [kind |-> "Ok",
     data |-> [utf8 |-> TRUE,
               text |-> [wellformed |-> TRUE,
                         value |-> [theme |-> ThemeObject,
                                    entries |-> <<EntryObject("a")>>,
                                    timeoutMs |-> 10 * n + PathRank(p)]]]]

\* A file at that place that is not a configuration: bytes that are not UTF-8,
\* text that is not JSON, or a document with two entries of one id.
BadCfgFile(n, p, kind) ==
    LET good == CfgFile(n, p).data
    IN  [kind |-> "Ok",
         data |-> CASE kind = "BadUtf8" -> [good EXCEPT !.utf8 = FALSE]
                    [] kind = "BadJson" -> [good EXCEPT !.text.wellformed = FALSE]
                    [] kind = "BadLogic" ->
                           [good EXCEPT !.text.value.entries =
                                            <<EntryObject("a"), EntryObject("a")>>]]

CfgInstance(n, layout) ==
    [files |-> [p \in Paths |->
                   CASE layout[p] = "NotFound" -> NotFound
                     [] layout[p] = "IoError" -> IoError
                     [] layout[p] = "Ok" -> CfgFile(n, p)
                     [] OTHER -> BadCfgFile(n, p, layout[p])],
     read_only |-> TRUE]

InitCfg ==
    /\ drivers = <<CfgDriver>>
    /\ mounted_volumes = <<>>
    /\ next_volume_numeric_id = 1
    /\ mount_result = [kind |-> "none"]
    /\ returned_ids = <<>>
    /\ mount_call = [kind |-> "none"]
    /\ fs_call = [kind |-> "none"]
    /\ detect_call = [kind |-> "none"]
    /\ CfgIdle /\ HalIdle /\ StageIdle /\ LogIdle /\ InputIdle /\ ParseIdle /\ ElfIdle /\ BootIdle /\ GuiIdle

CfgMount ==
    /\ cfg_result.kind = "none"
    /\ Cardinality(DOMAIN mounted_volumes) < MaxCfgVolumes
    /\ \E outcome \in DriverOutcomes :
         \E layout \in (IF outcome = "mountok" THEN [Paths -> {"NotFound", "IoError", "Ok"}]
                        ELSE {[p \in Paths |-> "NotFound"]}) :
           /\ next_volume_numeric_id + IdsGenerated(1, <<outcome>>)
                  <= MaxVolumeNumericId + 1
           /\ mount_volume_from_device(CfgDevice, <<outcome>>,
                                       CfgInstance(next_volume_numeric_id, layout))
    /\ UNCHANGED <<cfgVars, parseVars, elfVars, bootVars, guiVars, halVars, stageVars,
                   logVars, inputVars>>

LoadConfiguration ==
    /\ cfg_result.kind = "none"
    /\ load_configuration
    /\ UNCHANGED <<fsVars, parseVars, elfVars, bootVars, guiVars, halVars, stageVars,
                   logVars, inputVars>>

NextCfg == CfgMount \/ LoadConfiguration

SpecCfg == InitCfg /\ [][NextCfg]_vars

\* The places that hold a readable file: (i, r) for the i-th volume of the
\* listing vols and the path of rank r.
ReadablePlacesOf(vols) ==
    {pl \in (1..Len(vols)) \X (1..3) :
        \E p \in Paths :
            /\ PathRank(p) = pl[2]
            /\ mounted_volumes[vols[pl[1]].id].instance.files[p].kind = "Ok"}

PlaceBefore(a, b) == a[1] < b[1] \/ (a[1] = b[1] /\ a[2] < b[2])

FileAtPlaceOf(vols, pl) ==
    LET p == CHOOSE q \in Paths : PathRank(q) = pl[2]
    IN  mounted_volumes[vols[pl[1]].id].instance.files[p]

\* C3: load_configuration returns the configuration of the first readable file in
\* the order volumes outermost, then /LBL/config.json, /boot/lbl/config.json,
\* /config.json: an earlier volume wins over a later one whatever the paths, and
\* within a volume the earlier path wins.
C3_SearchOrder ==
    cfg_result.kind # "none" =>
        LET vols == list_mounted_volumes
            places == ReadablePlacesOf(vols)
        IN  places # {} =>
                LET first == CHOOSE a \in places :
                                 \A b \in places : a = b \/ PlaceBefore(a, b)
                IN  /\ cfg_result.kind = "Ok"
                    /\ cfg_result.config.timeout_ms
                           = FileAtPlaceOf(vols, first).data.text.value["timeoutMs"]

\* V1 holds a config at /config.json only, V2 holds one at /LBL/config.json, and
\* the loader returned V1's.
C3_Witness ==
    /\ cfg_result.kind = "Ok"
    /\ ReadablePlacesOf(list_mounted_volumes) = {<<1, 3>>, <<2, 1>>}
    /\ cfg_result.config.timeout_ms
           = FileAtPlaceOf(list_mounted_volumes, <<1, 3>>).data.text.value["timeoutMs"]

\* C20: load_configuration returns NoVolumesMounted exactly when the mount table
\* is empty, and then reads no file; it returns FileNotFound only after it has read
\* every search path on every mounted volume, each read having failed, and it does
\* return FileNotFound when volumes are mounted and no path on any of them can be
\* read; every read before the last one made is a failed one.
C20_SearchExhaustive ==
    cfg_result.kind # "none" =>
        LET is(e) == cfg_result.kind = "Err" /\ cfg_result.err = e
            pairs == SearchPairs
            failed(pair) == read_file(pair[1], pair[2]).kind = "Err"
        IN  /\ is("NoVolumesMounted") <=> mounted_volumes = <<>>
            /\ is("NoVolumesMounted") => cfg_reads = <<>>
            /\ is("FileNotFound") =>
                   /\ cfg_reads = pairs
                   /\ \A k \in DOMAIN cfg_reads : failed(cfg_reads[k])
            /\ (mounted_volumes # <<>> /\ \A k \in DOMAIN pairs : failed(pairs[k]))
                   => is("FileNotFound")
            /\ \A k \in 1..(Len(cfg_reads) - 1) : failed(cfg_reads[k])

\* Two volumes are mounted, the first answers NotFound and an I/O error, the
\* second NotFound throughout, and all six places were read.
C20_Witness ==
    /\ cfg_result = [kind |-> "Err", err |-> "FileNotFound"]
    /\ Len(cfg_reads) = 6
    /\ read_file(cfg_reads[1][1], cfg_reads[1][2]) = NotFound
    /\ read_file(cfg_reads[2][1], cfg_reads[2][2]) = IoError
    /\ \A k \in 4..6 : read_file(cfg_reads[k][1], cfg_reads[k][2]) = NotFound

----------------------------------------------------------------------------
(* SpecParse: parse_config_json is applied to one configuration document.    *)

ParseIds == {"a", "b"}

\* The entry at position i of a document: the title differs with the position.
ParseEntry(id, i) == [id |-> id, title |-> <<"T">> \o Decimal(i), kernel |-> "/k"]

\* The documents: theme present or absent; the timeout absent, under the key serde
\* reads, or under the snake_case key; the entries array absent or of up to
\* MaxEntries entries, the first of which may lack its kernel or give the empty
\* string for it; the advanced object
\* absent, empty, or naming a default entry under either spelling of the key.
ParseDocuments ==
    LET ThemeParts == {EmptyObject, [theme |-> ThemeObject]}
        TimeoutParts == {EmptyObject, [timeoutMs |-> 7000], [timeout_ms |-> 7000]}
        EntriesParts ==
            {EmptyObject} \cup
            { [entries |-> [i \in DOMAIN ids |-> ParseEntry(ids[i], i)]] :
                ids \in UNION { [1..n -> ParseIds] : n \in 0..MaxEntries } }
        AdvancedParts ==
            {EmptyObject, [advanced |-> EmptyObject]}
            \cup { [advanced |-> [defaultBootEntryId |-> d]] : d \in ParseIds \cup {"x"} }
            \cup { [advanced |-> [default_boot_entry_id |-> d]] : d \in ParseIds \cup {"x"} }
        DropKernel(obj, kernel) ==
            IF kernel = "keep" \/ "entries" \notin DOMAIN obj \/ Len(obj["entries"]) = 0
            THEN obj
            ELSE IF kernel = "drop"
            THEN [obj EXCEPT !["entries"][1] = [id |-> @.id, title |-> @.title]]
            ELSE [obj EXCEPT !["entries"][1].kernel = ""]
    IN  { [wellformed |-> w, value |-> DropKernel(th @@ ti @@ en @@ ad, kernel)] :
            w \in BOOLEAN, kernel \in {"keep", "drop", "empty"},
            th \in ThemeParts, ti \in TimeoutParts,
            en \in EntriesParts, ad \in AdvancedParts }

InitParse ==
    /\ FilesystemManager_new /\ CfgIdle /\ HalIdle /\ StageIdle /\ LogIdle /\ InputIdle /\ ElfIdle /\ BootIdle /\ GuiIdle
    /\ parse_input \in ParseDocuments
    /\ parse_result = [kind |-> "none"]

ParseConfigJson ==
    /\ parse_result.kind = "none"
    /\ parse_result' = parse_config_json(parse_input)
    /\ UNCHANGED <<fsVars, cfgVars, elfVars, bootVars, guiVars, parse_input, halVars, stageVars,
                   logVars, inputVars>>

NextParse == ParseConfigJson

SpecParse == InitParse /\ [][NextParse]_vars

\* The document parse_config_json was applied to, once it has returned.
ParsedDocument == parse_input.value

\* The document is JSON text whose entries array is present and whose entries
\* each give id, title and kernel.
EntriesGiven ==
    /\ parse_result.kind # "none"
    /\ parse_input.wellformed
    /\ "entries" \in DOMAIN ParsedDocument
    /\ \A i \in DOMAIN ParsedDocument["entries"] :
           BootEntryRequired \subseteq DOMAIN ParsedDocument["entries"][i]

\* The ids that two entries of the document share.
DuplicatedIds ==
    {ParsedDocument["entries"][j].id :
        j \in {k \in DOMAIN ParsedDocument["entries"] :
                  \E i \in 1..(k - 1) :
                      ParsedDocument["entries"][i].id = ParsedDocument["entries"][k].id}}

\* The default entry id the document sets in its advanced object, under the key of
\* the documented format (default_boot_entry_id) or the key serde reads.
DocumentDefaultIds ==
    IF "advanced" \notin DOMAIN ParsedDocument THEN {}
    ELSE {ParsedDocument["advanced"][k] :
             k \in DOMAIN ParsedDocument["advanced"]
                   \cap {"default_boot_entry_id", "defaultBootEntryId"}}

DocumentEntryIds ==
    {ParsedDocument["entries"][i].id : i \in DOMAIN ParsedDocument["entries"]}

\* C4: parse_config_json applied to a configuration in which two entries share an
\* id, whatever its other fields, fails with a Logic error whose message names the
\* duplicated id.
C4_DuplicateIdRejected ==
    (EntriesGiven /\ DuplicatedIds # {}) =>
        /\ parse_result.kind = "Err"
        /\ parse_result.err = "LogicError"
        /\ parse_result.msg[2] \in DuplicatedIds

\* C5: parse_config_json applied to a configuration whose default_boot_entry_id is
\* the id of no entry fails with a Logic error, and a configuration whose default id
\* is absent or is the id of an entry does not fail on that point.
C5_UnresolvedDefaultRejected ==
    EntriesGiven =>
        IF \E d \in DocumentDefaultIds : d \notin DocumentEntryIds
        THEN parse_result.kind = "Err" /\ parse_result.err = "LogicError"
        ELSE ~(/\ parse_result.kind = "Err"
               /\ parse_result.err = "LogicError"
               /\ parse_result.msg[1] = "default_boot_entry_id does not match any entry ID")

\* C6: parse_config_json applied to a document that holds only an entries array
\* whose single entry gives id, title and kernel succeeds with timeout_ms = 5000,
\* plugins empty, log_level info, enable_mouse true and show_countdown true.
C6_MinimalDocumentDefaults ==
    (/\ EntriesGiven
     /\ DOMAIN ParsedDocument = {"entries"}
     /\ Len(ParsedDocument["entries"]) = 1
     /\ DOMAIN ParsedDocument["entries"][1] = BootEntryRequired) =>
        /\ parse_result.kind = "Ok"
        /\ parse_result.config.timeout_ms = 5000
        /\ parse_result.config.plugins = <<>>
        /\ parse_result.config.advanced.log_level = "Info"
        /\ parse_result.config.advanced.enable_mouse = TRUE
        /\ parse_result.config.advanced.show_countdown = TRUE

\* C17: an LblConfig that parse_config_json returns has a non-empty entry list,
\* pairwise distinct entry ids and, when it sets a default entry id, an entry with
\* that id; and a document whose entries array is empty is rejected.
C17_ReturnedConfigInvariants ==
    /\ parse_result.kind = "Ok" =>
         LET config == parse_result.config
             default_id == config.advanced.default_boot_entry_id
         IN  /\ config.entries # <<>>
             /\ \A i, j \in DOMAIN config.entries :
                    i # j => config.entries[i].id # config.entries[j].id
             /\ default_id # None =>
                    \E i \in DOMAIN config.entries : config.entries[i].id = default_id[1]
    /\ (/\ parse_result.kind # "none"
        /\ "entries" \in DOMAIN ParsedDocument
        /\ ParsedDocument["entries"] = <<>>) => parse_result.kind = "Err"

\* A configuration of two entries that names the second as its default was
\* returned.
C17_Witness ==
    /\ parse_result.kind = "Ok"
    /\ Len(parse_result.config.entries) = 2
    /\ parse_result.config.advanced.default_boot_entry_id
           = Some(parse_result.config.entries[2].id)

\* C18: parse_config_json returns an error for every configuration with an entry
\* of type kernel_direct (the type of an entry that gives none) whose kernel path
\* is the empty string.
C18_EmptyKernelPathRejected ==
    (/\ parse_result.kind # "none"
     /\ parse_input.wellformed
     /\ "entries" \in DOMAIN ParsedDocument
     /\ \E i \in DOMAIN ParsedDocument["entries"] :
            LET e == ParsedDocument["entries"][i]
            IN  /\ "kernel" \in DOMAIN e /\ e["kernel"] = ""
                /\ ("type" \in DOMAIN e => e["type"] = "kernel_direct"))
        => parse_result.kind = "Err"

----------------------------------------------------------------------------
(* SpecElf: load_kernel is applied to one image, memory being fresh.         *)

\* The bytes of the image that segments are cut from.
ElfFileBytes == <<1, 2>>

\* The program headers: one of another type, and LOAD headers whose (filesz, memsz)
\* give no footprint, bss only, file bytes only, file bytes and bss, and more file
\* bytes than memory.
ProgramHeaders ==
    LET SegmentSizes ==
            {<<0, 0>>, <<1, 0>>, <<0, 1>>, <<1, 1>>, <<0, 2>>, <<1, 2>>, <<2, 1>>}
    IN  {[type |-> "Note", offset |-> 0, vaddr |-> 0, filesz |-> 0, memsz |-> 0]}
        \cup {[type |-> "Load", offset |-> o, vaddr |-> v,
               filesz |-> sz[1], memsz |-> sz[2]] :
                o \in {1, 2}, v \in {0, 1, U64_MAX}, sz \in SegmentSizes}

ElfImages ==
    {[elf64 |-> e, entry |-> en, phdrs |-> phs, data |-> ElfFileBytes] :
        e \in BOOLEAN, en \in {0, 1},
        phs \in UNION {[1..n -> ProgramHeaders] : n \in 0..MaxPhdrs}}

InitElf ==
    /\ FilesystemManager_new /\ CfgIdle /\ HalIdle /\ StageIdle /\ LogIdle /\ InputIdle /\ ParseIdle /\ BootIdle /\ GuiIdle
    /\ kernel_data \in {im \in ElfImages : im.elf64 \/ (im.entry = 0 /\ im.phdrs = <<>>)}
    /\ memory = FreshMemory
    /\ load_result = [kind |-> "none"]

LoadKernel ==
    /\ load_result.kind = "none"
    /\ \E checked \in BOOLEAN :
           LET r == load_kernel(kernel_data, memory, checked)
           IN  memory' = r.mem /\ load_result' = r.result
    /\ UNCHANGED <<fsVars, cfgVars, parseVars, bootVars, guiVars, kernel_data,
                   halVars, stageVars,
                   logVars, inputVars>>

NextElf == LoadKernel

SpecElf == InitElf /\ [][NextElf]_vars

LoadablePhdrs == {i \in DOMAIN kernel_data.phdrs : IsLoadable(kernel_data.phdrs[i])}

\* C7: when load_kernel succeeds on an ELF64 image, every LOAD header with non-zero
\* memory size has its file bytes at [vaddr, vaddr + filesz) and zeros up to
\* vaddr + memsz, load_address is the least vaddr, size is the greatest
\* vaddr + memsz minus that, and entry_point is the header's entry.
C7_PlacementRoundTrip ==
    (load_result.kind = "Ok" /\ is_elf64(kernel_data)) =>
        /\ \A i \in LoadablePhdrs :
               LET ph == kernel_data.phdrs[i]
               IN  /\ \A k \in 0..(ph.filesz - 1) :
                          memory[(ph.vaddr + k) % AddrModulus]
                              = kernel_data.data[ph.offset + k + 1]
                   /\ \A k \in ph.filesz..(ph.memsz - 1) :
                          memory[(ph.vaddr + k) % AddrModulus] = 0
        /\ \E i \in LoadablePhdrs :
               /\ load_result.info.load_address = kernel_data.phdrs[i].vaddr
               /\ \A j \in LoadablePhdrs :
                      kernel_data.phdrs[i].vaddr <= kernel_data.phdrs[j].vaddr
        /\ \E i \in LoadablePhdrs :
               /\ load_result.info.size + load_result.info.load_address
                      = kernel_data.phdrs[i].vaddr + kernel_data.phdrs[i].memsz
               /\ \A j \in LoadablePhdrs :
                      kernel_data.phdrs[j].vaddr + kernel_data.phdrs[j].memsz
                          <= kernel_data.phdrs[i].vaddr + kernel_data.phdrs[i].memsz
        /\ load_result.info.entry_point = kernel_data.entry

\* C8: load_kernel on an ELF64 image with no LOAD header of non-zero memory size
\* returns InvalidFormat saying there are no loadable segments, and memory is as it
\* was before the call.
C8_NoLoadableSegments ==
    (load_result.kind # "none" /\ is_elf64(kernel_data) /\ LoadablePhdrs = {}) =>
        /\ load_result = LoadErr("InvalidFormat", "ELF file has no loadable segments.")
        /\ memory = FreshMemory

\* An ELF64 image with a LOAD header that has file bytes but no memory size, beside
\* a header of another type, was refused.
C8_Witness ==
    /\ load_result = LoadErr("InvalidFormat", "ELF file has no loadable segments.")
    /\ LoadablePhdrs = {}
    /\ \E i \in DOMAIN kernel_data.phdrs :
           kernel_data.phdrs[i].type = "Load" /\ kernel_data.phdrs[i].filesz > 0
    /\ \E i \in DOMAIN kernel_data.phdrs : kernel_data.phdrs[i].type = "Note"

\* C34: load_kernel returns a KernelInfo or a LoadError for every image, never
\* an abort; and it returns no KernelInfo for an image with a LOAD segment whose
\* file size exceeds its memory size, whose file bytes end beyond the file, or
\* whose vaddr + mem_size exceeds the address space.
C34_LoadKernelTotal ==
    /\ load_result.kind \in {"none", "Ok", "Err"}
    /\ load_result.kind = "Ok" =>
           \A i \in LoadablePhdrs :
               LET ph == kernel_data.phdrs[i]
               IN  /\ ph.filesz <= ph.memsz
                   /\ ph.offset + ph.filesz <= Len(kernel_data.data)
                   /\ ph.vaddr + ph.memsz <= AddrModulus

----------------------------------------------------------------------------
(* SpecBoot: execute_boot runs one entry on a machine with at most two        *)
(* mounted volumes, while the firmware's memory-map key may change.         *)

BootVolumeId == FormatVolumeId(1, CfgDevice, CfgDriver)
BootVolume2Id == FormatVolumeId(2, CfgDevice, CfgDriver)

\* A kernel image with one LOAD segment.
GoodImage ==
    [elf64 |-> TRUE, entry |-> 1, data |-> ElfFileBytes,
     phdrs |-> <<[type |-> "Load", offset |-> 0, vaddr |-> 0, filesz |-> 2, memsz |-> 3]>>]

\* Another loadable kernel image, told from GoodImage by its entry point.
OtherImage == [GoodImage EXCEPT !.entry = 0]

FileOk(data) == [kind |-> "Ok", data |-> data]

\* The volume table made of the given volumes, each [id, k, g, i]: its id and what
\* reading the kernel, the signature and the initrd file gives on it; no volume
\* has a file at the empty path.
BootVolumeTable(volumes) ==
    [id \in {v.id : v \in volumes} |->
        LET v == CHOOSE w \in volumes : w.id = id
        IN  [instance |-> [files |-> [p \in {"/k", "/k.sig", "/i", ""} |->
                                        CASE p = "/k" -> v.k [] p = "/k.sig" -> v.g
                                          [] p = "/i" -> v.i [] OTHER -> NotFound],
                           read_only |-> TRUE],
             lbl_volume_info |-> [id |-> id, fs_type |-> CfgDriver,
                                  device_path |-> CfgDevice, is_read_only |-> TRUE]]]

\* The signature file that signs GoodImage, and one that signs something else.
GoodSignature == <<7>>
BadSignature == <<8>>

\* The volumes execute_boot may find: none; one volume whose kernel, signature
\* and initrd files are each missing or present; or two volumes, the first
\* without a kernel file and the second with the kernel and perhaps the others;
\* or two volumes, the first with the kernel and perhaps its signature, the
\* second with another kernel, or a signature, or both, or neither.
BootVolumeTables ==
    {<<>>} \cup
    { BootVolumeTable({[id |-> BootVolumeId, k |-> k, g |-> g, i |-> i]}) :
        k \in {NotFound, FileOk(EmptyImage), FileOk(GoodImage)},
        g \in {NotFound, FileOk(<<>>), FileOk(GoodSignature), FileOk(BadSignature)},
        i \in {NotFound, FileOk(<<5, 6>>)} } \cup
    { BootVolumeTable({[id |-> BootVolumeId, k |-> NotFound, g |-> NotFound, i |-> NotFound],
                       [id |-> BootVolume2Id, k |-> FileOk(GoodImage), g |-> g, i |-> i]}) :
        g \in {NotFound, FileOk(GoodSignature)},
        i \in {NotFound, FileOk(<<5, 6>>)} } \cup
    { BootVolumeTable({[id |-> BootVolumeId, k |-> FileOk(GoodImage), g |-> g1, i |-> NotFound],
                       [id |-> BootVolume2Id, k |-> k2, g |-> g2, i |-> NotFound]}) :
        g1 \in {NotFound, FileOk(GoodSignature)},
        k2 \in {NotFound, FileOk(OtherImage)},
        g2 \in {NotFound, FileOk(GoodSignature)} }

BootEntries ==
    { [id |-> "a", title |-> "T", kernel |-> "/k", cmdline |-> cmd, secure |-> sec,
       initrd |-> ini, entry_type |-> ty, volume_id |-> vol] :
        cmd \in {"", "root=/dev/sda2"},
        sec \in BOOLEAN, ini \in {None, Some(""), Some("/i")},
        ty \in {"KernelDirect", "UefiChainload", "UefiApplication", "InternalTool"},
        vol \in {None, Some(BootVolumeId), Some(BootVolume2Id), Some(<<"n", "o">>)} }

InitBoot ==
    /\ drivers = <<CfgDriver>>
    /\ mounted_volumes \in BootVolumeTables
    /\ next_volume_numeric_id = Cardinality(DOMAIN mounted_volumes) + 1
    /\ mount_result = [kind |-> "none"]
    /\ returned_ids = SortedKeys(DOMAIN mounted_volumes)
    /\ mount_call = [kind |-> "none"]
    /\ fs_call = [kind |-> "none"]
    /\ detect_call = [kind |-> "none"]
    /\ CfgIdle /\ HalIdle /\ StageIdle /\ LogIdle /\ InputIdle /\ ParseIdle /\ ElfIdle /\ GuiIdle
    /\ boot_entry \in BootEntries
    /\ boot_pc = "entry"
    /\ boot_log = <<>>
    /\ boot_env = [volume |-> None, initrd |-> None, params |-> None]
    /\ tpm_available \in BOOLEAN
    /\ next_alloc_addr = NEXT_ALLOC_ADDR
    /\ firmware \in {[kind |-> k, map_key |-> 0, calls |-> <<>>] : k \in {"bios", "uefi"}}

\* The harness: on UEFI the memory-map key changes, which makes a key fetched
\* earlier stale.
InvalidateKey ==
    /\ firmware.kind = "uefi"
    /\ firmware.map_key < MaxMapKey
    /\ boot_pc \notin {"jumped", "panic"}
    /\ firmware' = [firmware EXCEPT !.map_key = @ + 1]
    /\ UNCHANGED <<boot_entry, boot_pc, boot_log, boot_env, tpm_available,
                   next_alloc_addr, elfVars, fsVars, cfgVars, parseVars, guiVars,
                   halVars, stageVars,
                   logVars, inputVars>>

NextBoot ==
    \/ Verify
    \/ ResolveVolume
    \/ ReadKernel
    \/ LoadKernelImage
    \/ LoadInitrd
    \/ jump_to_kernel_x86_64
    \/ InvalidateKey

SpecBoot == InitBoot /\ [][NextBoot]_vars

\* What the executor does with the kernel after verification: reading the kernel
\* file, load_kernel, reading and staging the initrd, and the adapter.
LoadEvents == {"read_kernel", "load_kernel", "read_initrd", "load_initrd", "adapter"}

\* C2: when verify_boot_entry returns an error for an entry with secure = true, the
\* executor afterwards never reads the kernel file, never calls load_kernel or
\* load_initrd, and never calls the architecture adapter.
C2_NoLoadAfterVerifyError ==
    \A i \in DOMAIN boot_log :
        boot_log[i] = "verify_err" =>
            /\ boot_entry.secure
            /\ \A j \in (i + 1)..Len(boot_log) : boot_log[j] \notin LoadEvents
            /\ boot_pc = "panic"
            /\ load_result.kind = "none"
            /\ boot_env.params = None

\* A secure KernelDirect entry whose kernel is a loadable image on the mounted
\* volume and whose signature file is missing: verification failed and the
\* executor stopped.
C2_Witness ==
    /\ boot_entry.secure
    /\ boot_entry.entry_type = "KernelDirect"
    /\ boot_entry.volume_id = None
    /\ boot_log = <<"verify_err">>
    /\ boot_pc = "panic"
    /\ read_file(BootVolumeId, "/k") = FileOk(GoodImage)
    /\ read_file(BootVolumeId, "/k.sig") = NotFound

\* Whether a signature file validates for a kernel file: of the files the volumes
\* hold, only GoodSignature signs GoodImage.
Validates(signature_data, data) == signature_data = GoodSignature /\ data = GoodImage

\* C21: for a secure entry whose kernel file can be read, verify_boot_entry
\* returns SignatureVerificationFailed when <kernel_path>.sig is on no volume and
\* when the signature does not validate; it returns Ok only when the signature
\* file exists and validates.
C21_SignatureVerification ==
    (boot_entry.secure /\ boot_log # <<>> /\ FirstVolumeWith(boot_entry.kernel) # 0) =>
        LET vols == list_mounted_volumes
            k == FirstVolumeWith(boot_entry.kernel)
            g == FirstVolumeWith(signature_path(boot_entry.kernel))
            validated ==
                /\ g # 0
                /\ Validates(read_file(vols[g].id, signature_path(boot_entry.kernel)).data,
                             read_file(vols[k].id, boot_entry.kernel).data)
            r == verify_boot_entry(boot_entry)
        IN  /\ ~validated =>
                  /\ r.kind = "Err"
                  /\ r.err = "SignatureVerificationFailed"
                  /\ boot_log[1] = "verify_err"
            /\ (r.kind = "Ok" \/ boot_log[1] = "verify_ok") => validated

\* The failures execute_boot can detect: the verification failed, the kernel
\* file could not be read, load_kernel failed, or the initrd file could not be
\* read (the log then ends with the step that failed).
BootFailed ==
    /\ boot_log # <<>>
    /\ LET last == boot_log[Len(boot_log)]
       IN  \/ last = "verify_err"
           \/ last = "read_kernel" /\ read_file(boot_env.volume[1], boot_entry.kernel).kind = "Err"
           \/ last = "load_kernel" /\ load_result.kind = "Err"
           \/ last = "read_initrd"

\* C22: when the verification, the reading or loading of the kernel, or the
\* reading of the initrd fails, the executor does not halt (it surfaces the error
\* and returns to the menu) and the adapter is not called.
C22_FailureReturnsToMenu ==
    BootFailed => (boot_pc # "panic" /\ boot_env.params = None)

\* C23: the kernel is read from entry.volume_id when the entry declares one;
\* otherwise from the first mounted volume on which kernel_path can be read,
\* volumes without the kernel being skipped.
C23_KernelVolume ==
    LET vols == list_mounted_volumes
        k == FirstVolumeWith(boot_entry.kernel)
    IN  (\E i \in DOMAIN boot_log : boot_log[i] = "read_kernel") =>
            IF boot_entry.volume_id # None
            THEN boot_env.volume = boot_entry.volume_id
            ELSE k # 0 =>
                    /\ boot_env.volume = Some(vols[k].id)
                    /\ kernel_data = read_file(vols[k].id, boot_entry.kernel).data

\* The regions the loader wrote to: every LOAD segment of the kernel with bytes
\* in memory, and the staged initrd when it has bytes.
LoadedRegions ==
    { [base |-> kernel_data.phdrs[i].vaddr, size |-> kernel_data.phdrs[i].memsz] :
        i \in LoadablePhdrs } \cup
    { [base |-> boot_env.initrd[i].load_address, size |-> boot_env.initrd[i].size] :
        i \in {j \in DOMAIN boot_env.initrd : boot_env.initrd[j].size > 0} }

\* C29: when the adapter has jumped, the regions of the LOAD segments and of
\* the staged initrd are recorded in the memory map handed to the kernel; so
\* when there is such a region, the boot parameters point to a memory map that
\* has an entry.
C29_LoadedRegionsInMemoryMap ==
    (boot_pc = "jumped" /\ LoadedRegions # {}) =>
        /\ boot_env.params[1].memory_map_ptr # 0
        /\ boot_env.params[1].memory_map_entries > 0

\* C32: when the verification of a secure entry succeeded, the kernel and the
\* signature it checked against each other came from the same mounted volume.
C32_SignatureFromKernelVolume ==
    (boot_entry.secure /\ boot_log # <<>> /\ boot_log[1] = "verify_ok") =>
        FirstVolumeWith(boot_entry.kernel) = FirstVolumeWith(signature_path(boot_entry.kernel))

\* The entry being booted names an initrd by a non-empty path.
NamesInitrd == boot_entry.initrd # None /\ boot_entry.initrd[1] # ""

\* The steps of load_and_execute_kernel, in order, for the entry being booted.
KernelDirectSteps ==
    <<"read_kernel", "load_kernel">>
        \o (IF NamesInitrd THEN <<"read_initrd", "load_initrd">> ELSE <<>>)
        \o <<"adapter">>

\* C33: for a kernel_direct entry the executor reads the kernel, runs
\* load_kernel, reads and stages the initrd exactly when the entry names one by
\* a non-empty path, and calls the adapter, in this order, each step once and
\* only after the steps before it succeeded; the adapter gets the KernelInfo,
\* the initrd record (none without an initrd) and the entry's command line.
C33_ExecutorStepOrder ==
    (boot_entry.entry_type = "KernelDirect" /\ boot_log # <<>>) =>
        LET steps == Tail(boot_log)
            done == SelectSeq(steps, LAMBDA e : e \in LoadEvents)
        IN  /\ Len(done) <= Len(KernelDirectSteps)
            /\ done = SubSeq(KernelDirectSteps, 1, Len(done))
            /\ ("load_kernel" \in {done[i] : i \in DOMAIN done}) =>
                   read_file(boot_env.volume[1], boot_entry.kernel) = FileOk(kernel_data)
            /\ (\E i \in DOMAIN done : done[i] \in {"read_initrd", "adapter"}) =>
                   load_result.kind = "Ok"
            /\ ~NamesInitrd => boot_env.initrd = None
            /\ boot_pc = "jumped" <=> (done = KernelDirectSteps)
            /\ boot_pc = "jumped" =>
                   LET p == boot_env.params[1]
                   IN  /\ p.kernel_entry = load_result.info.entry_point
                       /\ p.kernel_base = load_result.info.load_address
                       /\ p.kernel_size = load_result.info.size
                       /\ p.cmdline_ptr = boot_entry.cmdline
                       /\ IF NamesInitrd
                          THEN /\ boot_env.initrd = Some(staged[Len(staged)].info)
                               /\ staged[Len(staged)].data =
                                      read_file(boot_env.volume[1], boot_entry.initrd[1]).data
                               /\ p.initrd_base = boot_env.initrd[1].load_address
                               /\ p.initrd_size = boot_env.initrd[1].size
                          ELSE p.initrd_base = 0 /\ p.initrd_size = 0

\* A secure entry with a command line and an initrd was booted: all five steps
\* were taken and the adapter jumped.
C33_Witness ==
    /\ boot_pc = "jumped"
    /\ boot_entry.secure
    /\ boot_entry.cmdline # ""
    /\ boot_entry.initrd = Some("/i")
    /\ Tail(boot_log) = <<"KernelImage", "InitrdImage", "read_kernel", "load_kernel",
                          "read_initrd", "load_initrd", "adapter">>

\* An entry with an empty initrd path was booted without reading an initrd.
C33_WitnessEmptyPath ==
    /\ boot_pc = "jumped"
    /\ boot_entry.initrd = Some("")
    /\ boot_env.initrd = None

\* C37: for a secure entry that reaches the kernel loader, the image handed to
\* load_kernel is the image whose signature verify_boot_entry checked: the file
\* at the kernel path on the volume where the verification found it.
C37_LoadedImageIsVerifiedImage ==
    (boot_entry.secure /\ \E i \in DOMAIN boot_log : boot_log[i] = "load_kernel") =>
        LET vols == list_mounted_volumes
            k == FirstVolumeWith(boot_entry.kernel)
        IN  /\ boot_env.volume = Some(vols[k].id)
            /\ kernel_data = read_file(vols[k].id, boot_entry.kernel).data

\* The ExitBootServices calls the firmware received.
ExitCalls == {i \in DOMAIN firmware.calls : firmware.calls[i].call = "ExitBootServices"}

\* C9: on UEFI firmware, when the adapter has jumped, the last firmware call is an
\* ExitBootServices that succeeded with the current memory-map key, and it was
\* retried at most once, after one failure on a stale key.
C9_ExitBootServicesBeforeJump ==
    (firmware.kind = "uefi" /\ boot_pc = "jumped") =>
        /\ firmware.calls # <<>>
        /\ LET last == firmware.calls[Len(firmware.calls)]
           IN  /\ last.call = "ExitBootServices"
               /\ last.ok
               /\ last.key = firmware.map_key
        /\ Cardinality(ExitCalls) \in {1, 2}
        /\ \A i \in ExitCalls : i # Len(firmware.calls) => ~firmware.calls[i].ok

----------------------------------------------------------------------------
(* SpecGui: run_loop runs on a valid configuration and no input event is     *)
(* ever delivered.  The loop is the only thing the processor runs, so an     *)
(* enabled step is eventually taken.                                        *)

\* Valid configurations: the entries are non-empty with distinct ids and the
\* default id, when set, is the id of an entry.
GuiConfigs ==
    { [timeout_ms |-> t,
       entries |-> [i \in DOMAIN ids |-> deserialize_BootEntry(EntryObject(ids[i]))],
       advanced |-> deserialize_AdvancedSettings(adv)] :
        t \in {0, 16, 40},
        ids \in {<<"a">>, <<"b">>, <<"a", "b">>, <<"b", "a">>},
        adv \in { sc @@ de :
                    sc \in {EmptyObject, [showCountdown |-> FALSE]},
                    de \in {EmptyObject} \cup {[defaultBootEntryId |-> d] : d \in {"a", "b"}} } }

InitGui ==
    /\ FilesystemManager_new /\ CfgIdle /\ HalIdle /\ StageIdle /\ LogIdle /\ InputIdle /\ ParseIdle /\ ElfIdle
    /\ BootIdle
    /\ gui_config \in {c \in GuiConfigs :
                          c.advanced.default_boot_entry_id = None
                          \/ position(c.entries, c.advanced.default_boot_entry_id[1]) # None}
    /\ gui_pc = "start"
    /\ ui_state = EmptyObject
    /\ gui_result = [kind |-> "none"]
    /\ fake_time = 0
    /\ elapsed_ms = 0

NextGui == run_loop_enter \/ run_loop_iteration \/ run_loop_return

SpecGui == InitGui /\ [][NextGui]_vars /\ WF_vars(NextGui)

\* The entry run_loop is to return on timeout: the default entry, or the first.
DefaultEntry ==
    IF gui_config.advanced.default_boot_entry_id = None THEN gui_config.entries[1]
    ELSE gui_config.entries[
             CHOOSE i \in DOMAIN gui_config.entries :
                 gui_config.entries[i].id = gui_config.advanced.default_boot_entry_id[1]]

\* C10: with no input event, for every valid configuration run_loop eventually
\* returns the default boot entry (the first entry when no default is set), and
\* not before timeout_ms milliseconds have passed since the loop started.
C10_TimeoutReturnsDefault ==
    <>(/\ gui_pc = "done"
       /\ gui_result = [kind |-> "BootEntrySelected", entry |-> DefaultEntry]
       /\ elapsed_ms >= gui_config.timeout_ms)

\* C11: of two successive reads of get_current_time_ms, made below the top of the
\* counter's range, the second is greater than or equal to the first, and so is
\* the tick run_loop records from the second against the tick it recorded from
\* the first: the delta between consecutive ticks is never negative.
C11_TimeMonotonic ==
    [][fake_time + 16 < TimeModulus =>
        /\ fake_time' >= fake_time
        /\ (gui_pc = "loop" /\ gui_pc' = "loop") =>
               ui_state'.last_tick_time_ms - ui_state.last_tick_time_ms >= 0]_vars

\* The loop has made its third read of the clock.
C11_Witness ==
    /\ gui_pc = "loop"
    /\ fake_time = 48
    /\ ui_state.last_tick_time_ms = 48

----------------------------------------------------------------------------
(* SpecFat: Fat32Driver::detect is asked about one device after another.     *)

\* A device as its first sector shows it: the bytes at offsets 510 and 511, the
\* file-system-type string at offset 82, and two fields of the BPB.
FatDevices ==
    [name : {CfgDevice}, byte510 : {85, 84, 0, 170}, byte511 : {170, 171, 0, 85},
     fs_type : {"FAT32   ", "FAT16   ", "NTFS    "},
     bytes_per_sector : {512, 0}, sectors_per_cluster : {8, 0}]

InitFat == FilesystemManager_new /\ CfgIdle /\ HalIdle /\ StageIdle /\ LogIdle /\ InputIdle /\ ParseIdle /\ ElfIdle /\ BootIdle /\ GuiIdle

Fat32Detect ==
    /\ \E device \in FatDevices :
           detect_call' = [kind |-> "done", device |-> device,
                           result |-> Fat32Driver_detect(device)]
    /\ UNCHANGED <<drivers, mounted_volumes, next_volume_numeric_id, mount_result,
                   returned_ids, mount_call, fs_call, cfgVars, parseVars, elfVars,
                   bootVars, guiVars, halVars, stageVars,
                   logVars, inputVars>>

NextFat == Fat32Detect

SpecFat == InitFat /\ [][NextFat]_vars

\* C12: detect returns true for a device whose first sector carries 0x55 0xAA at
\* offsets 510 and 511, the FAT32 type string at offset 82 and a sane BPB, and
\* false when either signature byte differs.
C12_Fat32Detect ==
    detect_call.kind = "done" =>
        LET d == detect_call.device
        IN  /\ (/\ d.byte510 = 85 /\ d.byte511 = 170 /\ d.fs_type = "FAT32   "
                /\ d.bytes_per_sector = 512 /\ d.sectors_per_cluster = 8)
                   => detect_call.result
            /\ (d.byte510 # 85 \/ d.byte511 # 170) => ~detect_call.result

----------------------------------------------------------------------------
(* SpecOps: one driver is registered, volumes are mounted, and files are     *)
(* read, directories listed and paths examined through the manager.          *)

\* Paths with a `..` and with a `.` segment.
DotPaths == {"/LBL/../config.json", "/./config.json"}

\* The instance of the n-th generated id: one that holds every path and tags its
\* answers with n, or one that holds nothing.
OpsInstance(n, full) ==
    LET answer(what) ==
            [p \in Paths \cup DotPaths |->
                IF full THEN [kind |-> "Ok", data |-> <<what, n, p>>] ELSE NotFound]
    IN  [files |-> answer("bytes"), listing |-> answer("entries"),
         meta |-> answer("metadata"),
         present |-> [p \in Paths \cup DotPaths |->
                         [kind |-> "Ok",
                          data |-> <<IF full THEN "true" ELSE "false", n, p>>]],
         read_only |-> TRUE]

OpsMount ==
    /\ Cardinality(DOMAIN mounted_volumes) < MaxCfgVolumes
    /\ \E outcome \in {"mountfail", "mountok"}, full \in BOOLEAN :
           /\ next_volume_numeric_id + 1 <= MaxVolumeNumericId + 1
           /\ mount_volume_from_device(CfgDevice, <<outcome>>,
                                       OpsInstance(next_volume_numeric_id, full))
    /\ UNCHANGED <<cfgVars, parseVars, elfVars, bootVars, guiVars, halVars, stageVars,
                   logVars, inputVars>>

\* One of the four calls, on a mounted volume or on the id the next mount would
\* generate; the instance is invoked when get_instance returned it.
ManagerCall ==
    /\ \E op \in {"read_file", "list_directory", "metadata", "exists"},
          volume_id \in DOMAIN mounted_volumes
                        \cup {FormatVolumeId(next_volume_numeric_id, CfgDevice, CfgDriver)},
          path \in Paths \cup DotPaths :
           fs_call' =
               [kind |-> "done", op |-> op, volume_id |-> volume_id, path |-> path,
                result |-> CASE op = "read_file" -> read_file(volume_id, path)
                             [] op = "list_directory" -> list_directory(volume_id, path)
                             [] op = "metadata" -> metadata(volume_id, path)
                             [] op = "exists" -> exists(volume_id, path),
                instance_calls |->
                    IF get_instance(volume_id).kind = "Ok"
                    THEN <<[volume |-> volume_id, op |-> op, path |-> path]>>
                    ELSE <<>>]
    /\ UNCHANGED <<drivers, mounted_volumes, next_volume_numeric_id, mount_result,
                   returned_ids, mount_call, detect_call, cfgVars, parseVars, elfVars,
                   bootVars, guiVars, halVars, stageVars,
                   logVars, inputVars>>

NextOps == OpsMount \/ ManagerCall

SpecOps == InitCfg /\ [][NextOps]_vars

\* C15: read_file, list_directory, metadata and exists return VolumeNotMounted with
\* the requested id, and invoke no instance, when the id is no key of the mount
\* table; otherwise they invoke the instance stored under the id, once, and return
\* its answer; and none of them changes the mount table.
C15_ManagerDelegates ==
    [][fs_call' # fs_call =>
        LET c == fs_call'
            instance == mounted_volumes[c.volume_id].instance
        IN  /\ mounted_volumes' = mounted_volumes
            /\ IF c.volume_id \notin DOMAIN mounted_volumes
               THEN /\ c.result = [kind |-> "Err", err |-> "VolumeNotMounted",
                                   id |-> c.volume_id]
                    /\ c.instance_calls = <<>>
               ELSE /\ c.result = CASE c.op = "read_file" -> instance.files[c.path]
                                    [] c.op = "list_directory" -> instance.listing[c.path]
                                    [] c.op = "metadata" -> instance.meta[c.path]
                                    [] c.op = "exists" -> instance.present[c.path]
                    /\ c.instance_calls
                           = <<[volume |-> c.volume_id, op |-> c.op, path |-> c.path]>>
    ]_vars

\* With a volume mounted, metadata was asked of an id that is not mounted.
C15_Witness ==
    /\ fs_call.kind = "done"
    /\ fs_call.op = "metadata"
    /\ mounted_volumes # <<>>
    /\ fs_call.volume_id \notin DOMAIN mounted_volumes
    /\ fs_call.result.kind = "Err"
    /\ fs_call.result.err = "VolumeNotMounted"

\* C16: read_file, list_directory, metadata and exists return an error for a path
\* with a `.` or `..` segment and pass no such path to an instance.
C16_DotSegmentsRejected ==
    (fs_call.kind = "done" /\ fs_call.path \in DotPaths) =>
        /\ fs_call.result.kind = "Err"
        /\ \A k \in DOMAIN fs_call.instance_calls :
               fs_call.instance_calls[k].path \notin DotPaths

----------------------------------------------------------------------------
(* SpecOrder: one driver is registered, a longer series of mounts succeeds   *)
(* or fails, then the configuration is searched on volumes that hold none.   *)

OrderMount ==
    /\ cfg_result.kind = "none"
    /\ next_volume_numeric_id <= MaxOrderNumericId
    /\ \E outcome \in {"mountfail", "mountok"} :
           mount_volume_from_device(CfgDevice, <<outcome>>, EmptyInstance)
    /\ UNCHANGED <<cfgVars, parseVars, elfVars, bootVars, guiVars, halVars, stageVars,
                   logVars, inputVars>>

NextOrder == OrderMount \/ LoadConfiguration

SpecOrder == InitCfg /\ [][NextOrder]_vars

\* C19: list_mounted_volumes enumerates the volumes in the order in which they
\* were mounted, whatever their number and whatever mounts failed in between, and
\* load_configuration visits them in that order.
C19_MountOrder ==
    LET vols == list_mounted_volumes
        n == Len(search_paths)
    IN  /\ [i \in DOMAIN vols |-> vols[i].id] = returned_ids
        /\ cfg_result.kind # "none" =>
               /\ Len(cfg_reads) = n * Len(returned_ids)
               /\ \A k \in DOMAIN cfg_reads :
                      cfg_reads[k][1] = returned_ids[((k - 1) \div n) + 1]

----------------------------------------------------------------------------
(* SpecHal: hal::initialize is called on a handoff pointer; on success       *)
(* devices are added to the device manager and the probes are started and   *)
(* polled.                                                                  *)

\* The version the first stage writes into the record, among the versions tried.
RecognizedVersion == 1

\* What the handoff pointer may be: null, or a record with a right or wrong magic
\* and a version.
BootInfoPointers ==
    {None} \cup { Some([magic |-> mg, version |-> v]) :
                    mg \in {LBL_BOOT_INFO_MAGIC, "other"},
                    v \in {RecognizedVersion, RecognizedVersion + 1} }

\* The devices a probe may report: with id 0 or an id of its own choice.
DeviceInfos ==
    { [id |-> id, name |-> nm, device_type |-> ty] :
        id \in 0..MaxDeviceId, nm \in {"a", "b"}, ty \in {"Storage", "Network"} }

InitHal ==
    /\ FilesystemManager_new /\ CfgIdle /\ ParseIdle /\ ElfIdle /\ BootIdle /\ GuiIdle
    /\ StageIdle /\ LogIdle /\ InputIdle
    /\ hal_call = [kind |-> "none"]
    /\ device_manager = None
    /\ published = <<>>
    /\ probe_handle = None

HalInitialize ==
    /\ hal_call.kind = "none"
    /\ \E boot_info_ptr \in BootInfoPointers :
           LET r == initialize(boot_info_ptr)
           IN  /\ hal_call' = [kind |-> "initialize", ptr |-> boot_info_ptr, result |-> r]
               /\ device_manager' = IF r.kind = "Ok" THEN Some(r.device_manager) ELSE None
    /\ UNCHANGED <<published, probe_handle, fsVars, cfgVars, parseVars, elfVars, bootVars,
                   guiVars, stageVars, logVars, inputVars>>

AddDevice ==
    /\ device_manager # None
    /\ Len(published) < MaxDevices
    /\ \E device_info \in DeviceInfos :
           LET r == add_device(device_manager[1], device_info)
           IN  /\ device_manager' = Some(r.dm)
               /\ published' = Append(published, r.stored)
               /\ hal_call' = [kind |-> "add_device", device_info |-> device_info,
                               before |-> device_manager[1]]
    /\ UNCHANGED <<probe_handle, fsVars, cfgVars, parseVars, elfVars, bootVars, guiVars,
                   stageVars, logVars, inputVars>>

\* hal::start_async_device_probes
StartProbes ==
    /\ device_manager # None
    /\ probe_handle = None
    /\ probe_handle' = Some(start_probes)
    /\ hal_call' = [kind |-> "start_probes"]
    /\ UNCHANGED <<device_manager, published, fsVars, cfgVars, parseVars, elfVars,
                   bootVars, guiVars, stageVars, logVars, inputVars>>

PollProgress ==
    /\ probe_handle # None
    /\ LET r == poll_progress(probe_handle[1])
       IN  /\ probe_handle' = Some(r.handle)
           /\ hal_call' = [kind |-> "poll_progress", result |-> r.result]
    /\ UNCHANGED <<device_manager, published, fsVars, cfgVars, parseVars, elfVars,
                   bootVars, guiVars, stageVars, logVars, inputVars>>

NextHal == HalInitialize \/ AddDevice \/ StartProbes \/ PollProgress

SpecHal == InitHal /\ [][NextHal]_vars

\* C24: hal::initialize returns the null-handoff error for a null pointer, the
\* invalid-magic error when the magic of the record differs, and Ok only when
\* both the magic and the version are recognized; on Ok the device manager is
\* empty.
C24_InitializeValidatesHandoff ==
    hal_call.kind = "initialize" =>
        LET ptr == hal_call.ptr
            r == hal_call.result
        IN  /\ ptr = None => (r.kind = "Err" /\ r.err = "NullBootInfo")
            /\ (ptr # None /\ ptr[1].magic # LBL_BOOT_INFO_MAGIC) =>
                   (r.kind = "Err" /\ r.err = "InvalidBootInfoMagic")
            /\ r.kind = "Ok" =>
                   /\ ptr # None
                   /\ ptr[1].magic = LBL_BOOT_INFO_MAGIC
                   /\ ptr[1].version = RecognizedVersion
                   /\ r.device_manager.devices = <<>>
                   /\ device_manager = Some(r.device_manager)

\* C25: the inventory is append-only: every device published by add_device is
\* returned unchanged by get_device_by_id after any further add_device calls
\* (calls with a pre-assigned non-zero id included), each add_device call adds
\* exactly one device to the inventory, and the ids are pairwise distinct.
C25_InventoryAppendOnly ==
    device_manager # None =>
        /\ \A i \in DOMAIN published :
               get_device_by_id(device_manager[1], published[i].id) = Some(published[i])
        /\ Cardinality(DOMAIN device_manager[1].devices) = Len(published)
        /\ \A i, j \in DOMAIN published : i # j => published[i].id # published[j].id

\* C26: get_devices_by_type(k) returns exactly the published devices of kind k,
\* each once, in the order of their publication.
C26_DevicesByType ==
    device_manager # None =>
        \A k \in {"Storage", "Network"} :
            get_devices_by_type(device_manager[1], k) =
                SelectSeq(published, LAMBDA d : d.device_type = k)

\* The probe tasks that have run to completion.
TasksCompleted(handle) == {i \in DOMAIN handle.tasks : handle.tasks[i].state = "ready"}

\* C27: total_tasks is the number of device classes, completed_tasks lies between
\* 0 and total_tasks and equals the number of tasks that have run to completion,
\* and poll_progress and is_complete report completion only when every task is
\* done.
C27_ProbeProgress ==
    probe_handle # None =>
        LET handle == probe_handle[1]
        IN  /\ handle.total_tasks = Len(ProbeClasses)
            /\ handle.completed_tasks \in 0..handle.total_tasks
            /\ handle.completed_tasks = Cardinality(TasksCompleted(handle))
            /\ is_complete(handle) => Cardinality(TasksCompleted(handle)) = handle.total_tasks
            /\ (hal_call.kind = "poll_progress" /\ hal_call.result) =>
                   Cardinality(TasksCompleted(handle)) = handle.total_tasks

----------------------------------------------------------------------------
(* SpecStage: load_initrd is called on one initrd file after another.        *)

\* The initrd files: empty, one byte, one or two 16-byte lines and one byte
\* more, with two different contents per length.
InitrdFiles ==
    { [i \in 1..n |-> (b + i) % 256] :
        n \in {0, 1, MaxInitrdLen - 1, MaxInitrdLen}, b \in {0, 100} }

InitStage ==
    /\ FilesystemManager_new /\ CfgIdle /\ ParseIdle /\ ElfIdle /\ BootIdle /\ GuiIdle
    /\ HalIdle /\ LogIdle /\ InputIdle
    /\ staged = <<>>

StageInitrd ==
    /\ Len(staged) < MaxStagings
    /\ \E initrd_data \in InitrdFiles :
           LET l == load_initrd(next_alloc_addr, memory, initrd_data)
           IN  /\ memory' = l.mem
               /\ next_alloc_addr' = l.next
               /\ staged' = Append(staged, [info |-> l.info, data |-> initrd_data])
    /\ UNCHANGED <<kernel_data, load_result, boot_entry, boot_pc, boot_log, boot_env,
                   tpm_available, firmware, fsVars, cfgVars, parseVars, guiVars, halVars,
                   logVars, inputVars>>

NextStage == StageInitrd

SpecStage == InitStage /\ [][NextStage]_vars

\* C28: every load_initrd call returned a load address that is a multiple of 16
\* and a size equal to the length of the file, the region it returned holds the
\* bytes of the file, and the regions of different calls do not overlap.
C28_InitrdStaging ==
    /\ \A i \in DOMAIN staged :
           LET info == staged[i].info
               data == staged[i].data
           IN  /\ info.load_address % 16 = 0
               /\ info.size = Len(data)
               /\ \A j \in DOMAIN data : memory[info.load_address + j - 1] = data[j]
    /\ \A i, j \in DOMAIN staged :
           i < j => staged[i].info.load_address + staged[i].info.size
                        <= staged[j].info.load_address

\* Three files were staged; the second starts on the 16-byte line after the one
\* byte of the first, and the third after the last, partly filled line of the
\* second.
C28_Witness ==
    /\ Len(staged) = 3
    /\ staged[1].info = [load_address |-> NEXT_ALLOC_ADDR, size |-> 1]
    /\ staged[2].info = [load_address |-> NEXT_ALLOC_ADDR + 16, size |-> MaxInitrdLen]
    /\ staged[3].info.load_address =
           NEXT_ALLOC_ADDR + 16 + ((MaxInitrdLen + 15) \div 16) * 16
    /\ staged[3].info.size > 0

----------------------------------------------------------------------------
(* SpecFirstCfg: load_configuration runs on two volumes whose files may be    *)
(* no configurations.                                                        *)

\* The first volume holds at each path nothing, a configuration, or a file of
\* one of the three bad kinds; the second holds nothing or a configuration at
\* the primary path.
FirstCfgTables ==
    { [id \in {BootVolumeId, BootVolume2Id} |->
          [instance |-> IF id = BootVolumeId THEN CfgInstance(1, l1) ELSE CfgInstance(2, l2),
           lbl_volume_info |-> [id |-> id, fs_type |-> CfgDriver,
                                device_path |-> CfgDevice, is_read_only |-> TRUE]]] :
        l1 \in [Paths -> {"NotFound", "Ok", "BadUtf8", "BadJson", "BadLogic"}],
        l2 \in {[p \in Paths |-> "NotFound"],
                [p \in Paths |-> IF p = DEFAULT_CONFIG_PATH_PRIMARY THEN "Ok"
                                 ELSE "NotFound"]} }

InitFirstCfg ==
    /\ drivers = <<CfgDriver>>
    /\ mounted_volumes \in FirstCfgTables
    /\ next_volume_numeric_id = 3
    /\ mount_result = [kind |-> "none"]
    /\ returned_ids = SortedKeys(DOMAIN mounted_volumes)
    /\ mount_call = [kind |-> "none"]
    /\ fs_call = [kind |-> "none"]
    /\ detect_call = [kind |-> "none"]
    /\ CfgIdle /\ HalIdle /\ StageIdle /\ LogIdle /\ InputIdle /\ ParseIdle /\ ElfIdle /\ BootIdle /\ GuiIdle

NextFirstCfg == LoadConfiguration

SpecFirstCfg == InitFirstCfg /\ [][NextFirstCfg]_vars

\* C39: load_configuration returns what the first readable file gives and reads
\* nothing after it: InvalidFormat when the file is not UTF-8 or not JSON, the
\* validation error when the document fails validation, the configuration
\* otherwise, whatever later paths and volumes hold.
C39_FirstReadableFileIsFinal ==
    cfg_result.kind # "none" =>
        LET vols == list_mounted_volumes
            places == ReadablePlacesOf(vols)
        IN  places # {} =>
                LET first == CHOOSE a \in places :
                                 \A b \in places : a = b \/ PlaceBefore(a, b)
                    f == FileAtPlaceOf(vols, first).data
                IN  /\ Len(cfg_reads) = 3 * (first[1] - 1) + first[2]
                    /\ IF ~f.utf8
                       THEN cfg_result = InvalidFormat("UTF-8 decoding error", "")
                       ELSE IF ~f.text.wellformed
                       THEN cfg_result.kind = "Err" /\ cfg_result.err = "InvalidFormat"
                       ELSE IF Len(f.text.value.entries) > 1
                       THEN cfg_result.kind = "Err" /\ cfg_result.err = "LogicError"
                       ELSE /\ cfg_result.kind = "Ok"
                            /\ cfg_result.config.timeout_ms = f.text.value.timeoutMs

\* The first volume holds text that is not JSON at the secondary path and a
\* configuration at the fallback path, the second volume a configuration at the
\* primary path; two reads were made and the result is InvalidFormat.
C39_Witness ==
    /\ cfg_result.kind = "Err"
    /\ cfg_result.err = "InvalidFormat"
    /\ Len(cfg_reads) = 2
    /\ ~read_file(BootVolumeId, DEFAULT_CONFIG_PATH_SECONDARY).data.text.wellformed
    /\ parse_config_json(read_file(BootVolumeId, DEFAULT_CONFIG_PATH_FALLBACK).data.text).kind = "Ok"
    /\ parse_config_json(read_file(BootVolume2Id, DEFAULT_CONFIG_PATH_PRIMARY).data.text).kind = "Ok"

-----------------------------------------------------------------------------
(* SpecPlace: a kernel image is placed by load_elf64_kernel and initrd files are
   staged after it, at the addresses of the machine (no scaled address space). *)

\* load_elf64_kernel, lines 155 and 173 to 175: a LOAD segment is written to the
\* physical address equal to its p_vaddr and takes p_memsz bytes there.
segment_region(ph) == [base |-> ph.vaddr, size |-> ph.memsz]

\* Where a kernel may ask to be placed: at 1 MiB, just below, at and just above
\* the address from which staging memory is handed out.
PlaceAddresses == {1048576, NEXT_ALLOC_ADDR - 16, NEXT_ALLOC_ADDR, NEXT_ALLOC_ADDR + 16}

\* ELF64 images of one LOAD segment of two file bytes, inside the file and the
\* address space.
PlaceImages ==
    { [elf64 |-> TRUE, entry |-> v, data |-> ElfFileBytes,
       phdrs |-> <<[type |-> "Load", offset |-> 0, vaddr |-> v, filesz |-> 2,
                    memsz |-> m]>>] :
        v \in PlaceAddresses, m \in {2, 16, 20} }

InitPlace ==
    /\ FilesystemManager_new /\ CfgIdle /\ ParseIdle /\ BootIdle /\ GuiIdle
    /\ HalIdle /\ StageIdle /\ LogIdle /\ InputIdle
    /\ kernel_data \in PlaceImages
    /\ memory = FreshMemory
    /\ load_result = [kind |-> "none"]

\* load_elf64_kernel on such an image: the file bytes are copied to the segment's
\* region, the rest of the region is zeroed, and KernelInfo is returned.
PlaceKernel ==
    /\ load_result.kind = "none"
    /\ LET ph == kernel_data.phdrs[1]
           r == segment_region(ph)
       IN  /\ memory' = [x \in DOMAIN memory \cup (r.base .. r.base + r.size - 1) |->
                            IF x >= r.base /\ x < r.base + ph.filesz
                            THEN kernel_data.data[ph.offset + (x - r.base) + 1]
                            ELSE IF x >= r.base /\ x < r.base + r.size THEN 0
                            ELSE memory[x]]
           /\ load_result' = [kind |-> "Ok",
                              info |-> [entry_point |-> kernel_data.entry,
                                        load_address |-> r.base, size |-> r.size]]
    /\ UNCHANGED <<kernel_data, bootVars, fsVars, cfgVars, parseVars, guiVars, halVars,
                   stageVars, logVars, inputVars>>

\* load_and_execute_kernel stages the initrd after load_kernel returned.
PlaceInitrd ==
    /\ load_result.kind = "Ok"
    /\ Len(staged) < MaxStagings
    /\ \E initrd_data \in InitrdFiles :
           LET l == load_initrd(next_alloc_addr, memory, initrd_data)
           IN  /\ memory' = l.mem
               /\ next_alloc_addr' = l.next
               /\ staged' = Append(staged, [info |-> l.info, data |-> initrd_data])
    /\ UNCHANGED <<kernel_data, load_result, boot_entry, boot_pc, boot_log, boot_env,
                   tpm_available, firmware, fsVars, cfgVars, parseVars, guiVars, halVars,
                   logVars, inputVars>>

NextPlace == PlaceKernel \/ PlaceInitrd

SpecPlace == InitPlace /\ [][NextPlace]_vars

\* C38: no region an initrd was staged in shares a byte with the region of a
\* LOAD segment of the kernel loaded before it.
C38_InitrdClearOfKernel ==
    load_result.kind = "Ok" =>
        \A i \in DOMAIN staged : \A k \in LoadablePhdrs :
            LET s == staged[i].info
                r == segment_region(kernel_data.phdrs[k])
            IN  (s.size > 0 /\ r.size > 0) =>
                    \/ s.load_address + s.size <= r.base
                    \/ r.base + r.size <= s.load_address

----------------------------------------------------------------------------
(* SpecMenu: run_loop runs on a configuration whose entries may carry an     *)
(* order field, and keys are pressed while it runs.                          *)

\* An entry of the document, titled by its id, with or without an order field.
MenuEntryObject(id, order) ==
    IF order = None THEN [id |-> id, title |-> id, kernel |-> "/k"]
    ELSE [id |-> id, title |-> id, kernel |-> "/k", order |-> order[1]]

MenuAdvanced ==
    { sc @@ de : sc \in {EmptyObject, [showCountdown |-> FALSE]},
                 de \in {EmptyObject, [defaultBootEntryId |-> "b"]} }

\* Two entries in either order, each with or without an order field, or
\* MaxEntries entries without order fields.
MenuConfigs ==
    { [timeout_ms |-> 40,
       entries |-> [i \in DOMAIN ids |-> deserialize_BootEntry(MenuEntryObject(ids[i], ord[i]))],
       advanced |-> deserialize_AdvancedSettings(adv)] :
        ids \in {<<"a", "b">>, <<"b", "a">>},
        ord \in [1..2 -> {None, Some(1), Some(2)}],
        adv \in MenuAdvanced } \cup
    { [timeout_ms |-> 40,
       entries |-> [i \in 1..MaxEntries |->
                      deserialize_BootEntry(MenuEntryObject(<<"a", "b", "c", "d">>[i], None))],
       advanced |-> deserialize_AdvancedSettings(adv)] :
        adv \in MenuAdvanced }

\* The keys pressed: those the boot menu reacts to, and one it ignores.
KeyCodes == {"UpArrow", "DownArrow", "Enter", "Escape", "S", "F10", "Tab"}

\* What may be pending when the loop polls: up to MaxPolled key presses.
PendingKeys == UNION { [1..n -> KeyCodes] : n \in 0..MaxPolled }

InitMenu ==
    /\ FilesystemManager_new /\ CfgIdle /\ HalIdle /\ StageIdle /\ LogIdle /\ InputIdle /\ ParseIdle /\ ElfIdle
    /\ BootIdle
    /\ gui_config \in MenuConfigs
    /\ gui_pc = "start"
    /\ ui_state = EmptyObject
    /\ gui_result = [kind |-> "none"]
    /\ fake_time = 0
    /\ elapsed_ms = 0

MenuIteration ==
    /\ gui_pc = "loop"
    /\ \E key_codes \in PendingKeys : run_loop_iteration_events(key_codes)

NextMenu == run_loop_enter \/ MenuIteration \/ run_loop_return

SpecMenu == InitMenu /\ [][NextMenu]_vars

\* The position highlighted when run_loop starts: that of the default entry, 0
\* without one.
StartIndex ==
    LET default_id == gui_config.advanced.default_boot_entry_id
        pos == IF default_id = None THEN None ELSE position(gui_config.entries, default_id[1])
    IN  IF pos = None THEN 0 ELSE pos[1]

\* The loop was left by the timeout path: the countdown reached zero.
TimedOut ==
    /\ gui_pc \in {"loop", "done"}
    /\ ui_state.should_exit_loop
    /\ ui_state.countdown_timer_ms = Some(0)

\* C35: a run in which an Up or Down key was handled does not leave the loop by
\* the timeout path; so a run that timed out still highlights, and returns, the
\* entry highlighted at the start.
C35_NoTimeoutAfterNavigation ==
    TimedOut => ui_state.selected_entry_index = StartIndex

\* C40: while run_loop runs, selected_entry_index is below the number of
\* entries; it starts at the default entry's position, 0 without one; on the
\* boot menu Up moves one entry up and from the first to the last, Down one
\* down and from the last to the first, Up then Down and Down then Up lead
\* back, and Enter ends the loop with the entry at selected_entry_index.
C40_SelectionInRange ==
    gui_pc \in {"loop", "done"} =>
        LET len == Len(gui_config.entries)
            idx == ui_state.selected_entry_index
            up == handle_input_event(ui_state, "UpArrow")
            down == handle_input_event(ui_state, "DownArrow")
            enter == handle_input_event(ui_state, "Enter")
        IN  /\ idx \in 0..(len - 1)
            /\ (gui_pc = "loop" /\ elapsed_ms = 0) => idx = StartIndex
            /\ ui_state.active_screen = "BootMenu" =>
                   /\ up.selected_entry_index = (IF idx = 0 THEN len - 1 ELSE idx - 1)
                   /\ down.selected_entry_index = (IF idx = len - 1 THEN 0 ELSE idx + 1)
                   /\ handle_input_event(up, "DownArrow").selected_entry_index = idx
                   /\ handle_input_event(down, "UpArrow").selected_entry_index = idx
                   /\ enter.should_exit_loop
                   /\ enter.exit_result = Some(BootEntrySelected(gui_config.entries[idx + 1]))
            /\ (gui_pc = "done" /\ gui_result.kind = "BootEntrySelected") =>
                   gui_result.entry = gui_config.entries[idx + 1]

\* Enter was pressed on the last of MaxEntries entries, reached from the first by
\* an Up key, and run_loop returned that entry.
C40_Witness ==
    /\ gui_pc = "done"
    /\ Len(gui_config.entries) = MaxEntries
    /\ StartIndex = 0
    /\ ui_state.selected_entry_index = MaxEntries - 1
    /\ elapsed_ms = 16
    /\ ui_state.countdown_timer_ms = None
    /\ gui_result = BootEntrySelected(gui_config.entries[MaxEntries])

\* Whether entry e stands above entry f in a menu sorted by the order field,
\* entries of equal order by id (the ids here are one character long).
MenuBefore(e, f) ==
    \/ e.order[1] < f.order[1]
    \/ e.order[1] = f.order[1] /\ StrLess(<<e.id>>, <<f.id>>)

\* C30: the menu lists the entries in the order of the configuration when no
\* entry has an order field, and sorted by that field, entries of equal order by
\* id, when every entry has one; the entry that Enter (or the timeout) selects
\* is the entry of the highlighted line.
C30_MenuOrder ==
    gui_pc \in {"loop", "done"} =>
        LET entries == gui_config.entries
            rows == draw_boot_menu_screen(ui_state)
            EntryOf(row) == CHOOSE e \in {entries[i] : i \in DOMAIN entries} :
                                e.title = row.title
        IN  /\ Len(rows) = Len(entries)
            /\ (\A i \in DOMAIN entries : entries[i].order = None) =>
                   \A i \in DOMAIN rows : rows[i].title = entries[i].title
            /\ (\A i \in DOMAIN entries : entries[i].order # None) =>
                   \A i, j \in DOMAIN rows :
                       i < j => MenuBefore(EntryOf(rows[i]), EntryOf(rows[j]))
            /\ gui_result.kind = "BootEntrySelected" =>
                   \E i \in DOMAIN rows :
                       rows[i].selected /\ EntryOf(rows[i]) = gui_result.entry

-----------------------------------------------------------------------------
(* core/src/logger.rs: the level filter of the logger, and the log facade. *)

LevelFilters == {"Off", "Error", "Warn", "Info", "Debug", "Trace"}
Levels == LevelFilters \ {"Off"}

\* level_filter_to_usize, lines 29 to 38.
level_filter_to_usize(filter) ==
    CASE filter = "Off" -> 0 [] filter = "Error" -> 1 [] filter = "Warn" -> 2
      [] filter = "Info" -> 3 [] filter = "Debug" -> 4 [] filter = "Trace" -> 5

\* usize_to_level_filter, lines 40 to 50.
usize_to_level_filter(val) ==
    CASE val = 1 -> "Error" [] val = 2 -> "Warn" [] val = 3 -> "Info"
      [] val = 4 -> "Debug" [] val = 5 -> "Trace" [] OTHER -> "Off"

\* The log facade's `level <= filter`: Error < Warn < Info < Debug < Trace, and
\* Off below them all.
LevelAtMost(level, filter) ==
    LET ord == [l \in LevelFilters |->
                  CASE l = "Off" -> 0 [] l = "Error" -> 1 [] l = "Warn" -> 2
                    [] l = "Info" -> 3 [] l = "Debug" -> 4 [] l = "Trace" -> 5]
    IN  ord[level] <= ord[filter]

\* LblLogger::enabled: metadata.level() <= the stored filter.
enabled(logger, level) == LevelAtMost(level, usize_to_level_filter(logger.level_filter))

\* get_log_level.
get_log_level(logger) == usize_to_level_filter(logger.level_filter)

\* init_global_logger: the filter is stored; log::set_logger succeeds once only,
\* and log::set_max_level runs under its Ok.
init_global_logger(logger, facade, max_level) ==
    [logger |-> [logger EXCEPT !.level_filter = level_filter_to_usize(max_level)],
     facade |-> IF facade.logger_set THEN facade
                ELSE [logger_set |-> TRUE, max_level |-> max_level],
     result |-> IF facade.logger_set THEN "Err" ELSE "Ok"]

\* A record of the given level written with log::error!, warn!, info!, debug! or
\* trace!: the facade drops it above its maximum level and hands it to the
\* logger set, if any; LblLogger::log writes it when enabled.
log_record(logger, facade, level) ==
    /\ LevelAtMost(level, facade.max_level)
    /\ facade.logger_set
    /\ enabled(logger, level)

\* set_log_level: the filter and the facade's maximum level are stored, then an
\* info record is logged.
set_log_level(logger, facade, level) ==
    LET l == [logger EXCEPT !.level_filter = level_filter_to_usize(level)]
        f == [facade EXCEPT !.max_level = level]
    IN  [logger |-> l, facade |-> f, emitted |-> log_record(l, f, "Info")]

-----------------------------------------------------------------------------
(* SpecLog: the logger is initialized, its level is set and read, and records
   are logged, in any order. *)

InitLog ==
    /\ FilesystemManager_new /\ CfgIdle /\ ParseIdle /\ ElfIdle /\ BootIdle /\ GuiIdle
    /\ HalIdle /\ StageIdle /\ LogIdle /\ InputIdle

LogUnchanged ==
    UNCHANGED <<fsVars, cfgVars, parseVars, elfVars, bootVars, guiVars, halVars, stageVars,
                inputVars>>

InitGlobalLogger ==
    /\ \E max_level \in LevelFilters :
           LET r == init_global_logger(LOGGER_INSTANCE, log_facade, max_level)
           IN  /\ LOGGER_INSTANCE' = r.logger
               /\ log_facade' = r.facade
               /\ log_call' = [op |-> "init_global_logger", level |-> max_level,
                               emitted |-> FALSE, last_set |-> Some(max_level)]
    /\ LogUnchanged

SetLogLevel ==
    /\ \E level \in LevelFilters :
           LET r == set_log_level(LOGGER_INSTANCE, log_facade, level)
           IN  /\ LOGGER_INSTANCE' = r.logger
               /\ log_facade' = r.facade
               /\ log_call' = [op |-> "set_log_level", level |-> level,
                               emitted |-> r.emitted, last_set |-> Some(level)]
    /\ LogUnchanged

LogRecord ==
    /\ \E level \in Levels :
           log_call' = [log_call EXCEPT !.op = "log", !.level = level,
                           !.emitted = log_record(LOGGER_INSTANCE, log_facade, level)]
    /\ UNCHANGED <<LOGGER_INSTANCE, log_facade>>
    /\ LogUnchanged

NextLog == InitGlobalLogger \/ SetLogLevel \/ LogRecord

SpecLog == InitLog /\ [][NextLog]_vars

\* C31: after init_global_logger(l) or set_log_level(l), get_log_level() is the
\* level set last, and a record written then is emitted exactly when its level
\* is at most that level.
C31_LogLevels ==
    log_call.last_set # None =>
        /\ get_log_level(LOGGER_INSTANCE) = log_call.last_set[1]
        /\ log_call.op = "log" =>
               (log_call.emitted <=> LevelAtMost(log_call.level, log_call.last_set[1]))

\* The part of C31 about get_log_level alone.
LastLevelSetWins ==
    log_call.last_set # None => get_log_level(LOGGER_INSTANCE) = log_call.last_set[1]

-----------------------------------------------------------------------------
(* gui/src/input.rs: the queue of input events. *)

\* init_input_system: a new, empty queue of the given capacity takes the place of
\* whatever was there.
init_input_system(capacity) == Some([items |-> <<>>, capacity |-> capacity])

\* A plausible slip: the event is queued whatever the length.
push_input_event_unbounded(queue, event) ==
    IF queue # None THEN Some([queue[1] EXCEPT !.items = Append(@, event)]) ELSE queue

\* push_input_event: push_back below the capacity, else the event is dropped with
\* a warning; without a queue an error is logged.
push_input_event(queue, event) ==
    IF queue # None
    THEN IF Len(queue[1].items) < queue[1].capacity
         THEN Some([queue[1] EXCEPT !.items = Append(@, event)])
         ELSE queue
    ELSE queue

\* poll_pending_event: pop_front of the queue, None without a queue.
poll_pending_event(queue) ==
    IF queue # None
    THEN IF queue[1].items # <<>>
         THEN [queue |-> Some([queue[1] EXCEPT !.items = Tail(@)]),
               result |-> Some(Head(queue[1].items))]
         ELSE [queue |-> queue, result |-> None]
    ELSE [queue |-> queue, result |-> None]

-----------------------------------------------------------------------------
(* SpecInput: the input system is initialized, events are pushed and polled, in
   any order. *)

InputEvents == {"KeyPress", "MouseMove"}

InitInput ==
    /\ FilesystemManager_new /\ CfgIdle /\ ParseIdle /\ ElfIdle /\ BootIdle /\ GuiIdle
    /\ HalIdle /\ StageIdle /\ LogIdle /\ InputIdle

InputUnchanged ==
    UNCHANGED <<fsVars, cfgVars, parseVars, elfVars, bootVars, guiVars, halVars, stageVars,
                logVars>>

\* VecDeque::with_capacity(n) gives a capacity of at least n.
InitInputSystem ==
    /\ \E capacity \in {MaxQueued, MaxQueued + 1} :
           INPUT_EVENT_QUEUE' = init_input_system(capacity)
    /\ input_call' = [op |-> "init", before |-> INPUT_EVENT_QUEUE, event |-> None,
                      result |-> None]
    /\ accepted' = <<>>
    /\ delivered' = <<>>
    /\ InputUnchanged

PushInputEvent ==
    /\ Len(accepted) < MaxPushes
    /\ \E event \in InputEvents :
           LET q == push_input_event(INPUT_EVENT_QUEUE, event)
           IN  /\ INPUT_EVENT_QUEUE' = q
               /\ input_call' = [op |-> "push", before |-> INPUT_EVENT_QUEUE,
                                 event |-> Some(event), result |-> None]
               /\ accepted' = IF q # INPUT_EVENT_QUEUE THEN Append(accepted, event)
                              ELSE accepted
    /\ UNCHANGED delivered
    /\ InputUnchanged

PollPendingEvent ==
    /\ LET r == poll_pending_event(INPUT_EVENT_QUEUE)
       IN  /\ INPUT_EVENT_QUEUE' = r.queue
           /\ input_call' = [op |-> "poll", before |-> INPUT_EVENT_QUEUE, event |-> None,
                             result |-> r.result]
           /\ delivered' = IF r.result # None THEN Append(delivered, r.result[1])
                           ELSE delivered
    /\ UNCHANGED accepted
    /\ InputUnchanged

NextInput == InitInputSystem \/ PushInputEvent \/ PollPendingEvent

SpecInput == InitInput /\ [][NextInput]_vars

\* C36: the events polled, followed by the events still queued, are the events
\* the queue accepted, in order; the queue never holds more than its capacity; a
\* push on a full queue and a push without a queue change nothing; a poll gives
\* the oldest queued event, and None on an empty queue or without a queue.
C36_BoundedFifo ==
    /\ IF INPUT_EVENT_QUEUE = None
       THEN accepted = <<>> /\ delivered = <<>>
       ELSE /\ Len(INPUT_EVENT_QUEUE[1].items) <= INPUT_EVENT_QUEUE[1].capacity
            /\ accepted = delivered \o INPUT_EVENT_QUEUE[1].items
    /\ input_call.op = "push" =>
           IF input_call.before = None
           THEN INPUT_EVENT_QUEUE = None
           ELSE LET b == input_call.before[1]
                IN  IF Len(b.items) >= b.capacity
                    THEN INPUT_EVENT_QUEUE = input_call.before
                    ELSE INPUT_EVENT_QUEUE = Some([b EXCEPT !.items =
                                                      Append(@, input_call.event[1])])
    /\ input_call.op = "poll" =>
           IF input_call.before = None
           THEN input_call.result = None /\ INPUT_EVENT_QUEUE = None
           ELSE LET b == input_call.before[1]
                IN  IF b.items = <<>>
                    THEN input_call.result = None /\ INPUT_EVENT_QUEUE = input_call.before
                    ELSE /\ input_call.result = Some(Head(b.items))
                         /\ INPUT_EVENT_QUEUE = Some([b EXCEPT !.items = Tail(@)])

\* An event was pushed at a full queue after an earlier event had been polled.
C36_Witness ==
    /\ input_call.op = "push"
    /\ input_call.before # None
    /\ Len(input_call.before[1].items) = input_call.before[1].capacity
    /\ delivered # <<>>
    /\ INPUT_EVENT_QUEUE[1].items # <<>>

====
